---- MODULE Spec2Model ----
(***************************************************************************)
(* A model of the orchestration scripts of C2Fuzz:                         *)
(*   scripts/run_config_sweep.py, scripts/run_scoring_experiments.py,      *)
(*   scripts/run_config_sweep_docker.py  (the sweep drivers), and          *)
(*   scripts/filter_c2_optimized_seeds.py (the seed filter).               *)
(* The fuzzer child process, the user at the terminal, other fuzzers that  *)
(* write to fuzz_sessions/ and the javac/java subprocesses are the         *)
(* environment: their steps are separate actions.                          *)
(***************************************************************************)
EXTENDS Integers, Sequences, FiniteSets, TLC

----------------------------------------------------------------------------
(* Bounds of the model *)

\* the events of one behaviour: a sweep input asks for at most this many fuzzer runs
\* (len(combos) * runs_per_combo), and what the runs leave of it is the number of
\* steps the environment takes beside them (a session directory of a fuzzer no driver
\* started, a write that moves a session's st_mtime, a best_cases_ directory, a
\* directory dropped into an output directory)
MaxEvents == 4
\* sweep driver instances (only SpecParallel runs more than one)
NumSweeps == 2

Procs == 1..NumSweeps

----------------------------------------------------------------------------
(* Strings and argument lists *)

\* an argparse value that was not given (None) / given with a list
NoneArg == [given |-> FALSE, vals |-> <<>>]
SomeArg(s) == [given |-> TRUE, vals |-> s]

Range(s) == {s[i] : i \in 1..Len(s)}

\* raw.strip().upper() on the argument strings the model draws
StripUpper(raw) ==
  CASE raw = "pf_idf"    -> "PF_IDF"
    [] raw = " uniform " -> "UNIFORM"
    [] raw = "mop"       -> "MOP"
    [] raw = "Bandit"    -> "BANDIT"
    [] raw = "champion"  -> "CHAMPION"
    [] raw = "random "   -> "RANDOM"
    [] raw = "bogus"     -> "BOGUS"
    [] OTHER             -> raw

\* str.lower() on the normalised names
Lower(s) ==
  CASE s = "PF_IDF"   -> "pf_idf"
    [] s = "UNIFORM"  -> "uniform"
    [] s = "MOP"      -> "mop"
    [] s = "BANDIT"   -> "bandit"
    [] s = "CHAMPION" -> "champion"
    [] s = "RANDOM"   -> "random"
    [] s = "BOGUS"    -> "bogus"
    [] OTHER          -> s

DEFAULT_POLICIES == <<"UNIFORM", "MOP", "BANDIT">>
SCORING_DEFAULT_POLICIES == <<"UNIFORM", "BANDIT">>
DEFAULT_CORPORA == <<"CHAMPION", "RANDOM">>
\* the scoring modes local to run_config_sweep_docker.main
default_scoring_modes ==
  <<"PF_IDF", "ABSOLUTE_COUNT", "PAIR_COVERAGE", "INTERACTION_DIVERSITY",
    "NOVEL_FEATURE_BONUS", "INTERACTION_PAIR_WEIGHTED", "UNIFORM">>
\* what parse_scoring_modes returns for the ScoringMode.java of the model
\* (the Java file is outside the repository's scripts; its enum is an input)
parse_scoring_modes == <<"PF_IDF", "UNIFORM">>

\* the placeholder for the corpus policy run_scoring_experiments does not have
NoCorpus == "-"

SweepDriver == "run_config_sweep"
ScoringDriver == "run_scoring_experiments"
DockerDriver == "run_config_sweep_docker"
Drivers == {SweepDriver, ScoringDriver, DockerDriver}

\* the names run_config_sweep.py defines at module level
SweepExports ==
  {"DEFAULT_POLICIES", "DEFAULT_CORPORA", "GRACEFUL_SHUTDOWN_SECONDS", "repo_root",
   "parse_scoring_modes", "list_session_dirs", "launch_fuzzer", "derive_timestamp",
   "ensure_output_root", "write_manifest", "build_command", "normalize",
   "parse_args", "main"}
\* the names run_config_sweep_docker.py imports from run_config_sweep
DockerImports ==
  {"DEFAULT_CORPORA", "DEFAULT_GRACEFUL_SHUTDOWN_SECONDS", "DEFAULT_POLICIES",
   "derive_timestamp", "ensure_output_root", "list_session_dirs", "normalize",
   "repo_root", "write_manifest"}

\* `from run_config_sweep import (...)`: ImportError unless every name is defined
ImportsResolve(driver) ==
  IF driver = DockerDriver THEN DockerImports \subseteq SweepExports ELSE TRUE

\* a faulty variant: unknown values are passed on instead of raising SystemExit
normalize_lenient(values, allowed) ==
  IF ~values.given THEN [ok |-> TRUE, val |-> allowed]
  ELSE [ok |-> TRUE, val |-> [i \in 1..Len(values.vals) |-> StripUpper(values.vals[i])]]

\* normalize(values, allowed, label) and normalize_policies(raw):
\* ok = FALSE stands for the SystemExit("Unknown ...")
normalize(values, allowed) ==
  LET options == [i \in 1..Len(allowed) |-> StripUpper(allowed[i])]
      upper == [i \in 1..Len(values.vals) |-> StripUpper(values.vals[i])]
  IN  IF ~values.given THEN [ok |-> TRUE, val |-> options]
      ELSE IF \E i \in 1..Len(upper) : upper[i] \notin Range(options)
           THEN [ok |-> FALSE, val |-> <<>>]
           ELSE [ok |-> TRUE, val |-> upper]

\* `requested = [mode.strip().upper() ...]; unknown = [...]` of main
RequestedModes(values, available) ==
  LET requested == [i \in 1..Len(values.vals) |-> StripUpper(values.vals[i])]
  IN  IF ~values.given THEN [ok |-> TRUE, val |-> available]
      ELSE IF \E i \in 1..Len(requested) : requested[i] \notin Range(available)
           THEN [ok |-> FALSE, val |-> <<>>]
           ELSE [ok |-> TRUE, val |-> requested]

\* combos = [(mode, policy, corpus) for mode in .. for policy in .. for corpus in ..]
RECURSIVE ForCorpus(_, _, _)
ForCorpus(mode, policy, corpora) ==
  IF corpora = <<>> THEN <<>>
  ELSE <<[mode |-> mode, policy |-> policy, corpus |-> Head(corpora)]>>
       \o ForCorpus(mode, policy, Tail(corpora))

RECURSIVE ForPolicy(_, _, _)
ForPolicy(mode, policies, corpora) ==
  IF policies = <<>> THEN <<>>
  ELSE ForCorpus(mode, Head(policies), corpora) \o ForPolicy(mode, Tail(policies), corpora)

RECURSIVE ForMode(_, _, _)
ForMode(modes, policies, corpora) ==
  IF modes = <<>> THEN <<>>
  ELSE ForPolicy(Head(modes), policies, corpora) \o ForMode(Tail(modes), policies, corpora)

Max(a, b) == IF a >= b THEN a ELSE b

\* the validation block of main, up to `if not combos`: the exception it raises
\* ("" for none) and the lists it computes
Validate(driver, inp) ==
  LET avail == IF driver = DockerDriver THEN default_scoring_modes ELSE parse_scoring_modes
      modes == RequestedModes(inp.modes, avail)
      pols == IF driver = ScoringDriver
              THEN normalize(inp.mutator_policies, SCORING_DEFAULT_POLICIES)
              ELSE normalize(inp.mutator_policies, DEFAULT_POLICIES)
      corps == IF driver = ScoringDriver
               THEN [ok |-> TRUE, val |-> <<NoCorpus>>]
               ELSE normalize(inp.corpus_policies, DEFAULT_CORPORA)
      combos == ForMode(modes.val, pols.val, corps.val)
      bad(e, why) == [exc |-> e, cause |-> why, scoring_modes |-> <<>>,
                      mutator_policies |-> <<>>, corpus_policies |-> <<>>, combos |-> <<>>]
      seedCheck == IF driver = ScoringDriver THEN TRUE ELSE ~inp.skip_seed_check
  IN  IF seedCheck /\ ~inp.seedsIsDir THEN bad("SystemExit", "seeds")
      ELSE IF driver # DockerDriver /\ ~inp.jarIsFile THEN bad("SystemExit", "jar")
      ELSE IF driver # DockerDriver /\ ~inp.scoringFileExists
           THEN bad("FileNotFoundError", "scoring_file")
      ELSE IF ~modes.ok THEN bad("SystemExit", "modes")
      ELSE IF ~pols.ok THEN bad("SystemExit", "mutator_policy")
      ELSE IF ~corps.ok THEN bad("SystemExit", "corpus_policy")
      ELSE IF combos = <<>> THEN bad("SystemExit", "combos")
      ELSE [exc |-> "", cause |-> "", scoring_modes |-> modes.val,
            mutator_policies |-> pols.val, corpus_policies |-> corps.val,
            combos |-> combos]

\* runs_per_combo = max(args.runs_per_combo, 1); run_scoring_experiments runs each
\* combination once
RunsPerCombo(driver, inp) ==
  IF driver = ScoringDriver THEN 1 ELSE Max(inp.runs_per_combo, 1)

----------------------------------------------------------------------------
(* State *)

VARIABLES
  sw,          \* sw[p]: the locals of sweep driver process p (main and launch_*)
  child,       \* child[p]: the fuzzer (or container) process p started last
  root,        \* the entries of the fuzz_sessions/ directory
  rootExists,  \* whether fuzz_sessions/ exists
  clock,       \* the file system's time, read for names and st_mtime
  out,         \* out[p]: the output directory of driver p, with its manifest.json
  envBudget,   \* the steps the environment may still take beside the runs
  flt,         \* the locals of filter_c2_optimized_seeds.main, its pool and its files
  rt,          \* filter_runtime_compiler_seeds.main, its sources and its output directory
  jt,          \* filter_jtreg.main, SRC_ROOT and OUT_ROOT
  fl           \* flatten_jtreg.flatten_java_no_rename, its source tree and destination

\* a path below fuzz_sessions/ or below an output directory
NoLabel == [mode |-> "", policy |-> "", corpus |-> "", run |-> 0]
NoName == [parent |-> "", kind |-> "", ts |-> 0, idx |-> 0, label |-> NoLabel]
SessionName(ts) ==
  [parent |-> "fuzz_sessions", kind |-> "session_", ts |-> ts, idx |-> 0, label |-> NoLabel]
BestCasesName(ts) ==
  [parent |-> "fuzz_sessions", kind |-> "best_cases_", ts |-> ts, idx |-> 0, label |-> NoLabel]

\* who created a directory: launch n of driver p, or nobody the model drives
Nobody == <<0, 0>>

\* a directory entry of fuzz_sessions/
Entry(name, isDir, mtime, by) == [name |-> name, isDir |-> isDir, mtime |-> mtime, by |-> by]

NoCmd == [scoring |-> "", mutator_policy |-> "", corpus_policy |-> "", rng |-> <<>>]

\* the driver's locals before main starts
Fresh(driver, inp) ==
  [driver |-> driver, inp |-> inp, pc |-> "import", exc |-> "", cause |-> "",
   scoring_modes |-> <<>>, mutator_policies |-> <<>>, corpus_policies |-> <<>>,
   combos |-> <<>>, runs_per_combo |-> 0, ci |-> 0, repetition |-> 0, completed |-> 0,
   label |-> NoLabel, cmd |-> NoCmd, before |-> {}, session_dir |-> NoName,
   timed_out |-> FALSE, rc |-> 0, signals |-> <<>>,
   runs |-> <<>>,       \* manifest["runs"] in memory
   launches |-> <<>>,   \* history: the command of every Popen
   hist |-> <<>>]       \* history: what each reconciliation saw and chose

NoInput ==
  [seedsIsDir |-> FALSE, skip_seed_check |-> FALSE, jarIsFile |-> FALSE,
   scoringFileExists |-> FALSE, modes |-> NoneArg, mutator_policies |-> NoneArg,
   corpus_policies |-> NoneArg, runs_per_combo |-> 0, rng_seeds |-> <<>>]

Idle == [Fresh(SweepDriver, NoInput) EXCEPT !.pc = "idle"]

NoChild ==
  [state |-> "none", made |-> FALSE, ts |-> 0, rc |-> 0, interrupted |-> FALSE,
   removed |-> FALSE]   \* the container was removed with `docker rm -f`

\* the output directory before the driver runs: "absent" (--output-dir not given, or
\* naming no directory), or an existing "empty" or "nonempty" directory
OutInit(output_dir) ==
  [exists |-> output_dir # "absent", junk |-> output_dir = "nonempty", dirs |-> {},
   manifest |-> [written |-> FALSE, runs |-> <<>>],
   created |-> FALSE]   \* history: the driver created it

ModeArgs ==
  {NoneArg, SomeArg(<<"pf_idf">>), SomeArg(<<"PF_IDF", " uniform ">>),
   SomeArg(<<"pf_idf", "pf_idf">>), SomeArg(<<"bogus">>)}
PolicyArgs == {NoneArg, SomeArg(<<"mop">>), SomeArg(<<"Bandit">>), SomeArg(<<"Bandit", "bogus">>)}
CorpusArgs == {NoneArg, SomeArg(<<"champion">>), SomeArg(<<"bogus">>)}
RunsPerComboArgs == {0, 2}
RngSeedArgs == {<<>>, <<7>>, <<7, 9>>}
OutputDirs == {"absent", "empty", "nonempty"}

\* the runs an input asks for
RunsOf(driver, i) == Len(Validate(driver, i).combos) * RunsPerCombo(driver, i)

\* the command lines and environments a driver is started with; options a driver
\* does not have are left at their defaults
Inputs(driver) ==
  {i \in [seedsIsDir : BOOLEAN, skip_seed_check : BOOLEAN, jarIsFile : BOOLEAN,
          scoringFileExists : BOOLEAN, modes : ModeArgs, mutator_policies : PolicyArgs,
          corpus_policies : CorpusArgs, runs_per_combo : RunsPerComboArgs,
          rng_seeds : RngSeedArgs] :
     /\ driver = ScoringDriver =>
          /\ ~i.skip_seed_check /\ i.corpus_policies = NoneArg
          /\ i.runs_per_combo = 0 /\ i.rng_seeds = <<>>
     /\ driver = DockerDriver =>
          /\ i.jarIsFile /\ i.scoringFileExists /\ i.runs_per_combo = 0
          /\ i.rng_seeds = <<>>
     /\ RunsOf(driver, i) <= MaxEvents}

\* fuzz_sessions/ before the drivers start: missing, or holding an old session
\* directory and a plain file whose name starts with session_
OldRoot == {Entry(SessionName(0), TRUE, 0, Nobody), Entry(SessionName(1), FALSE, 1, Nobody)}

\* the seed filter before it is started
FilterIdle == [pc |-> "idle"]

\* the jtreg scripts before they are started
RtIdle == [pc |-> "idle"]
JtIdle == [pc |-> "idle"]
FlIdle == [pc |-> "idle"]

InitSweepCommon ==
  /\ child = [p \in Procs |-> NoChild]
  /\ flt = FilterIdle
  /\ rt = RtIdle /\ jt = JtIdle /\ fl = FlIdle
  /\ \/ rootExists = FALSE /\ root = {} /\ clock = 0
     \/ rootExists = TRUE /\ root = OldRoot /\ clock = 1

\* one driver, started with any of the inputs
InitSweep ==
  /\ \E d \in Drivers : \E i \in Inputs(d) : \E o \in OutputDirs :
       /\ sw = [p \in Procs |-> IF p = 1 THEN Fresh(d, i) ELSE Idle]
       /\ out = [p \in Procs |-> IF p = 1 THEN OutInit(o) ELSE OutInit("absent")]
       /\ envBudget = MaxEvents - RunsOf(d, i)
  /\ InitSweepCommon

----------------------------------------------------------------------------
(* The sweep drivers: main *)

Raise(p, e, why) == [sw EXCEPT ![p].pc = "raised", ![p].exc = e, ![p].cause = why]

\* the module's imports, before main runs
Import(p) ==
  /\ sw[p].pc = "import"
  /\ sw' = IF ImportsResolve(sw[p].driver)
           THEN [sw EXCEPT ![p].pc = "main"]
           ELSE Raise(p, "ImportError", "import")
  /\ UNCHANGED <<child, root, rootExists, clock, out, envBudget, flt, rt, jt, fl>>

\* the arguments once the validation block has passed them: what main reads again
\* (runs_per_combo, rng_seeds); the checked facts hold, and the requested lists
\* live on, normalised, in scoring_modes, mutator_policies and corpus_policies
LiveArgs(inp) ==
  [seedsIsDir |-> TRUE, skip_seed_check |-> FALSE, jarIsFile |-> TRUE,
   scoringFileExists |-> TRUE, modes |-> NoneArg, mutator_policies |-> NoneArg,
   corpus_policies |-> NoneArg, runs_per_combo |-> inp.runs_per_combo,
   rng_seeds |-> inp.rng_seeds]

\* main, from parse_args to `if not combos`
Main(p) ==
  /\ sw[p].pc = "main"
  /\ LET v == Validate(sw[p].driver, sw[p].inp)
     IN  sw' = IF v.exc # "" THEN Raise(p, v.exc, v.cause)
               ELSE [sw EXCEPT ![p].pc = "ensure_output_root",
                               ![p].inp = LiveArgs(sw[p].inp),
                               ![p].scoring_modes = v.scoring_modes,
                               ![p].mutator_policies = v.mutator_policies,
                               ![p].corpus_policies = v.corpus_policies,
                               ![p].combos = v.combos]
  /\ UNCHANGED <<child, root, rootExists, clock, out, envBudget, flt, rt, jt, fl>>

\* ensure_output_root(output_root): refuses a non-empty directory, creates a missing one
EnsureOutputRoot(p) ==
  /\ sw[p].pc = "ensure_output_root"
  /\ IF out[p].exists
     THEN /\ sw' = IF out[p].junk \/ out[p].dirs # {} \/ out[p].manifest.written
                   THEN Raise(p, "RuntimeError", "output_not_empty")
                   ELSE [sw EXCEPT ![p].pc = "setup"]
          /\ UNCHANGED out
     ELSE /\ sw' = [sw EXCEPT ![p].pc = "setup"]
          /\ out' = [out EXCEPT ![p].exists = TRUE, ![p].created = TRUE]
  /\ UNCHANGED <<child, root, rootExists, clock, envBudget, flt, rt, jt, fl>>

\* a faulty variant: the manifest is only ever written empty
write_manifest_empty(p, runs) == [out EXCEPT ![p].manifest = [written |-> TRUE, runs |-> <<>>]]

\* write_manifest(manifest_path, manifest)
write_manifest(p, runs) == [out EXCEPT ![p].manifest = [written |-> TRUE, runs |-> runs]]

\* main, from the mkdir of fuzz_sessions/ and logs/ to the first write of the manifest
Setup(p) ==
  /\ sw[p].pc = "setup"
  /\ rootExists' = TRUE
  /\ sw' = [sw EXCEPT ![p].pc = "loop",
                      ![p].runs_per_combo = RunsPerCombo(sw[p].driver, sw[p].inp),
                      ![p].runs = <<>>, ![p].ci = 1, ![p].repetition = 0,
                      ![p].completed = 0]
  /\ out' = write_manifest(p, <<>>)
  /\ UNCHANGED <<child, root, clock, envBudget, flt, rt, jt, fl>>

\* list_session_dirs(base)
list_session_dirs ==
  IF ~rootExists THEN {}
  ELSE {e.name : e \in {x \in root : x.isDir /\ x.name.kind = "session_"}}

\* a faulty variant: the seeds are not cycled
RngForNoCycle(rng_seeds, repetition) ==
  IF repetition >= Len(rng_seeds) THEN <<>>
  ELSE <<rng_seeds[repetition + 1]>>

\* rng = rng_seeds[repetition % len(rng_seeds)] if rng_seeds else None
RngFor(rng_seeds, repetition) ==
  IF rng_seeds = <<>> THEN <<>>
  ELSE <<rng_seeds[(repetition % Len(rng_seeds)) + 1]>>

\* label = f"{mode.lower()}__{policy.lower()}__{corpus.lower()}__run{repetition + 1:02d}"
\* (run_scoring_experiments: f"{mode.lower()}__{policy.lower()}")
LabelFor(driver, combo, repetition) ==
  IF driver = ScoringDriver
  THEN [mode |-> Lower(combo.mode), policy |-> Lower(combo.policy), corpus |-> NoCorpus,
        run |-> 0]
  ELSE [mode |-> Lower(combo.mode), policy |-> Lower(combo.policy),
        corpus |-> Lower(combo.corpus), run |-> repetition + 1]

\* build_command / build_docker_command: the arguments the fuzzer is given
build_command(driver, combo, rng) ==
  IF driver = ScoringDriver
  THEN [scoring |-> combo.mode, mutator_policy |-> combo.policy,
        corpus_policy |-> NoCorpus, rng |-> <<>>]
  ELSE [scoring |-> combo.mode, mutator_policy |-> Lower(combo.policy),
        corpus_policy |-> Lower(combo.corpus), rng |-> rng]

\* the loops are exhausted: "Done. Collected ..." and return 0
LoopExit(p) ==
  /\ sw[p].pc = "loop"
  /\ sw[p].ci > Len(sw[p].combos)
  /\ sw' = [sw EXCEPT ![p].pc = "done"]
  /\ UNCHANGED <<child, root, rootExists, clock, out, envBudget, flt, rt, jt, fl>>

\* one iteration, up to `before = list_session_dirs(fuzz_sessions_root)`
BeginRun(p) ==
  /\ sw[p].pc = "loop"
  /\ sw[p].ci <= Len(sw[p].combos)
  /\ LET combo == sw[p].combos[sw[p].ci]
         rng == RngFor(sw[p].inp.rng_seeds, sw[p].repetition)
     IN  sw' = [sw EXCEPT ![p].pc = "popen",
                          ![p].completed = @ + 1,
                          ![p].label = LabelFor(sw[p].driver, combo, sw[p].repetition),
                          ![p].cmd = build_command(sw[p].driver, combo, rng),
                          ![p].before = list_session_dirs]
  /\ UNCHANGED <<child, root, rootExists, clock, out, envBudget, flt, rt, jt, fl>>

----------------------------------------------------------------------------
(* launch_fuzzer (run_config_sweep, run_scoring_experiments) and launch_container *)
(* (run_config_sweep_docker). The timeouts of proc.wait are events: one expires   *)
(* only while the child has not exited. launch_container sends its signals with   *)
(* `docker kill --signal=...` and removes the container before it returns.        *)

\* proc = subprocess.Popen(cmd, cwd=workdir), with timed_out = False before it
Popen(p) ==
  /\ sw[p].pc = "popen"
  /\ child' = [child EXCEPT ![p] = [NoChild EXCEPT !.state = "running"]]
  /\ sw' = [sw EXCEPT ![p].pc = "wait_duration", ![p].timed_out = FALSE, ![p].rc = 0,
                      ![p].signals = <<>>, ![p].launches = Append(@, sw[p].cmd)]
  /\ UNCHANGED <<root, rootExists, clock, out, envBudget, flt, rt, jt, fl>>

\* force_remove_container(name, docker_cmd), which launch_container calls where
\* launch_fuzzer does nothing
force_remove_container(driver, c) ==
  IF driver = DockerDriver THEN [c EXCEPT !.removed = TRUE] ELSE c

\* proc.wait(timeout=...) returns: the child has exited; return proc.returncode or 0
WaitReturns(p) ==
  /\ sw[p].pc \in {"wait_duration", "wait_grace"}
  /\ child[p].state = "exited"
  /\ sw' = [sw EXCEPT ![p].pc = "after", ![p].rc = child[p].rc]
  /\ child' = [child EXCEPT ![p] = force_remove_container(sw[p].driver, child[p])]
  /\ UNCHANGED <<root, rootExists, clock, out, envBudget, flt, rt, jt, fl>>

\* a faulty variant: the duration expires and the child is killed at once
OnDurationExpiredKill(s) ==
  [s EXCEPT !.timed_out = TRUE, !.signals = Append(@, "SIGKILL"), !.pc = "wait_grace"]

\* except subprocess.TimeoutExpired (of the first wait): timed_out = True, SIGINT
OnDurationExpired(s) ==
  [s EXCEPT !.timed_out = TRUE, !.signals = Append(@, "SIGINT"), !.pc = "wait_grace"]

\* a signal reaches the child: SIGKILL ends it, SIGINT asks it to stop
Deliver(c, sig) ==
  IF sig = "SIGKILL" THEN [c EXCEPT !.state = "exited", !.rc = -9]
  ELSE [c EXCEPT !.interrupted = TRUE]

LastSignal(s) == s.signals[Len(s.signals)]

DurationExpired(p) ==
  /\ sw[p].pc = "wait_duration"
  /\ child[p].state = "running"
  /\ sw' = [sw EXCEPT ![p] = OnDurationExpired(sw[p])]
  /\ child' = [child EXCEPT ![p] = Deliver(child[p], LastSignal(sw'[p]))]
  /\ UNCHANGED <<root, rootExists, clock, out, envBudget, flt, rt, jt, fl>>

\* except subprocess.TimeoutExpired (of the grace wait): kill, proc.wait(), and
\* return proc.returncode
GraceExpired(p) ==
  /\ sw[p].pc = "wait_grace"
  /\ child[p].state = "running"
  /\ child' = [child EXCEPT ![p] = force_remove_container(sw[p].driver,
                                                          Deliver(child[p], "SIGKILL"))]
  /\ sw' = [sw EXCEPT ![p].pc = "after", ![p].timed_out = TRUE,
                      ![p].signals = Append(@, "SIGKILL"), ![p].rc = child'[p].rc]
  /\ UNCHANGED <<root, rootExists, clock, out, envBudget, flt, rt, jt, fl>>

\* except KeyboardInterrupt (the user's Ctrl-C during the first wait): SIGINT, then
\* proc.wait() without a timeout
KeyboardInterruptWait(p) ==
  /\ sw[p].pc = "wait_duration"
  /\ child[p].state = "running"
  /\ child' = [child EXCEPT ![p] = Deliver(child[p], "SIGINT")]
  /\ sw' = [sw EXCEPT ![p].pc = "wait_interrupted", ![p].signals = Append(@, "SIGINT")]
  /\ UNCHANGED <<root, rootExists, clock, out, envBudget, flt, rt, jt, fl>>

\* that proc.wait() returns and the KeyboardInterrupt is raised again
InterruptedWaitReturns(p) ==
  /\ sw[p].pc = "wait_interrupted"
  /\ child[p].state = "exited"
  /\ sw' = Raise(p, "KeyboardInterrupt", "user")
  /\ child' = [child EXCEPT ![p] = force_remove_container(sw[p].driver, child[p])]
  /\ UNCHANGED <<root, rootExists, clock, out, envBudget, flt, rt, jt, fl>>

\* Ctrl-C during the grace wait, inside the TimeoutExpired handler: no clause
\* catches it there, it leaves launch_* at once
KeyboardInterruptGrace(p) ==
  /\ sw[p].pc = "wait_grace"
  /\ sw' = Raise(p, "KeyboardInterrupt", "user")
  /\ UNCHANGED <<child, root, rootExists, clock, out, envBudget, flt, rt, jt, fl>>

----------------------------------------------------------------------------
(* The environment of the drivers *)

\* the fuzzer creates its session directory session_<timestamp> (and fuzz_sessions/
\* if it is missing)
ChildCreatesSession(p) ==
  /\ child[p].state = "running"
  /\ ~child[p].made
  /\ clock' = clock + 1
  /\ rootExists' = TRUE
  /\ root' = root \cup {Entry(SessionName(clock'), TRUE, clock', <<p, Len(sw[p].launches)>>)}
  /\ child' = [child EXCEPT ![p].made = TRUE, ![p].ts = clock']
  /\ UNCHANGED <<sw, out, envBudget, flt, rt, jt, fl>>

\* the fuzzer creates best_cases_<timestamp> beside its session directory
ChildCreatesBestCases(p) ==
  /\ child[p].state = "running"
  /\ child[p].made
  /\ envBudget > 0
  /\ BestCasesName(child[p].ts) \notin {e.name : e \in root}
  /\ clock' = clock + 1
  /\ root' = root \cup {Entry(BestCasesName(child[p].ts), TRUE, clock',
                              <<p, Len(sw[p].launches)>>)}
  /\ envBudget' = envBudget - 1
  /\ UNCHANGED <<sw, child, rootExists, out, flt, rt, jt, fl>>

\* the running fuzzer writes into its session directory: st_mtime moves
ChildTouchesSession(p) ==
  /\ child[p].state = "running"
  /\ child[p].made
  /\ envBudget > 0
  /\ \E e \in root :
       /\ e.name = SessionName(child[p].ts)
       /\ clock' = clock + 1
       /\ root' = (root \ {e}) \cup {[e EXCEPT !.mtime = clock']}
  /\ envBudget' = envBudget - 1
  /\ UNCHANGED <<sw, child, rootExists, out, flt, rt, jt, fl>>

\* the fuzzer exits: on its own with status 0 or 1, or on the SIGINT it was sent
ChildExits(p) ==
  /\ child[p].state = "running"
  /\ \E rc \in (IF child[p].interrupted THEN {130} ELSE {0, 1}) :
       child' = [child EXCEPT ![p].state = "exited", ![p].rc = rc]
  /\ UNCHANGED <<sw, root, rootExists, clock, out, envBudget, flt, rt, jt, fl>>

\* a fuzzer no modelled driver started creates a session directory (while a run is
\* under way: one created between two runs is in the next `before` like an old one)
ForeignCreatesSession ==
  /\ envBudget > 0
  /\ rootExists
  /\ \E p \in Procs : sw[p].pc \in {"wait_duration", "wait_grace", "after"}
  /\ clock' = clock + 1
  /\ root' = root \cup {Entry(SessionName(clock'), TRUE, clock', Nobody)}
  /\ envBudget' = envBudget - 1
  /\ UNCHANGED <<sw, child, rootExists, out, flt, rt, jt, fl>>

\* an outside process creates, in the output directory of a driver that moves its
\* sessions there, the directory the run under way is going to be moved to
DestName(s) ==
  IF s.driver = ScoringDriver
  THEN [parent |-> "output", kind |-> "index_label", ts |-> 0, idx |-> s.ci,
        label |-> s.label]
  ELSE [parent |-> "output", kind |-> "timestamp__label", ts |-> s.session_dir.ts,
        idx |-> 0, label |-> s.label]

OutsiderCreatesDest(p) ==
  /\ envBudget > 0
  /\ sw[p].driver = ScoringDriver
  /\ sw[p].pc = "wait_duration"
  /\ out' = [out EXCEPT ![p].dirs = @ \cup {DestName(sw[p])}]
  /\ envBudget' = envBudget - 1
  /\ UNCHANGED <<sw, child, root, rootExists, clock, flt, rt, jt, fl>>

----------------------------------------------------------------------------
(* The sweep drivers: after the child has exited *)

\* new_sessions.sort(key=lambda p: p.stat().st_mtime, reverse=True); new_sessions[0]:
\* a candidate no other candidate is newer than
Newest(names) ==
  {e.name : e \in {x \in root : /\ x.name \in names
                                /\ \A y \in root : y.name \in names => y.mtime <= x.mtime}}

\* a faulty variant: every session directory counts as new
NewSessionsAll(after, before) == after

\* new_sessions = after - before
NewSessions(after, before) == after \ before

\* the session directories a driver may attribute to the run: run_config_sweep and
\* run_config_sweep_docker take the newest new one, run_scoring_experiments wants
\* exactly one; the empty set stands for the RuntimeError
Candidates(driver, new) ==
  IF driver = ScoringDriver
  THEN (IF Cardinality(new) = 1 THEN new ELSE {})
  ELSE Newest(new)

Creator(name) ==
  IF \E e \in root : e.name = name
  THEN (CHOOSE e \in root : e.name = name).by
  ELSE Nobody

\* after = list_session_dirs(...), up to `session_dir = ...`
Reconcile(p) ==
  /\ sw[p].pc = "after"
  /\ LET after == list_session_dirs
         new == NewSessions(after, sw[p].before)
         cands == Candidates(sw[p].driver, new)
         seen(chosen) == [run |-> sw[p].completed, before |-> sw[p].before,
                          after |-> after, entries |-> root, chosen |-> chosen,
                          by |-> Creator(chosen)]
     IN  IF cands = {}
         THEN sw' = [Raise(p, "RuntimeError", "no_new_session")
                       EXCEPT ![p].hist = Append(@, seen(NoName))]
         ELSE \E chosen \in cands :
                sw' = [sw EXCEPT ![p].pc = "archive", ![p].session_dir = chosen,
                                 ![p].hist = Append(@, seen(chosen))]
  /\ UNCHANGED <<child, root, rootExists, clock, out, envBudget, flt, rt, jt, fl>>

\* where the run's session directory is recorded to be: run_config_sweep keeps it in
\* place (dest_dir = session_dir), the others move it below the output directory
DestDir(s) == IF s.driver = SweepDriver THEN s.session_dir ELSE DestName(s)

\* derive_timestamp(session_dir)
derive_timestamp(name) == name.ts

\* run_meta: the fields that say which run it was and where its session is; the
\* fields that repeat the label (scoring_mode, mutator_policy, corpus_policy) and
\* those that report how the child ended (return_code, timed_out, elapsed_seconds)
\* are left out
RunMeta(s) ==
  [label |-> s.label, session_timestamp |-> derive_timestamp(s.session_dir),
   rng_seed |-> s.cmd.rng, command |-> s.cmd, dest_dir |-> DestDir(s)]

\* the end of the loop body: the next repetition, or the next combination
NextIteration(s) ==
  IF s.repetition + 1 < s.runs_per_combo
  THEN [s EXCEPT !.pc = "loop", !.repetition = @ + 1]
  ELSE [s EXCEPT !.pc = "loop", !.repetition = 0, !.ci = @ + 1]

\* from `dest_dir = ...` to the write of the manifest with the run appended
Archive(p) ==
  /\ sw[p].pc = "archive"
  /\ LET s == sw[p]
         dest == DestDir(s)
         recorded == Append(s.runs, RunMeta(s))
         src == {e \in root : e.name = s.session_dir}
         best == {e \in root : e.name = BestCasesName(derive_timestamp(s.session_dir))}
     IN  IF s.driver = SweepDriver
         THEN /\ sw' = [sw EXCEPT ![p] = [NextIteration(s) EXCEPT !.runs = recorded]]
              /\ out' = write_manifest(p, recorded)
              /\ UNCHANGED root
         ELSE IF dest \in out[p].dirs
         THEN /\ sw' = Raise(p, "RuntimeError", "dest_exists")
              /\ UNCHANGED <<out, root>>
         ELSE IF src = {}
         THEN /\ sw' = Raise(p, "FileNotFoundError", "session_gone")
              /\ UNCHANGED <<out, root>>
         ELSE \* shutil.move of the session (and, in run_scoring_experiments, of
              \* best_cases_<ts> when it exists; its copy of logs/fuzzer<ts>.log
              \* adds a file inside the moved directory, which the model does not hold)
              /\ sw' = [sw EXCEPT ![p] = [NextIteration(s) EXCEPT !.runs = recorded]]
              /\ root' = IF s.driver = ScoringDriver THEN root \ (src \cup best)
                         ELSE root \ src
              /\ out' = [write_manifest(p, recorded) EXCEPT ![p].dirs = @ \cup {dest}]
  /\ UNCHANGED <<child, rootExists, clock, envBudget, flt, rt, jt, fl>>

----------------------------------------------------------------------------
(* Specifications *)

vars == <<sw, child, root, rootExists, clock, out, envBudget, flt, rt, jt, fl>>

DriverStep(p) ==
  \/ Import(p)
  \/ Main(p)
  \/ EnsureOutputRoot(p)
  \/ Setup(p)
  \/ LoopExit(p)
  \/ BeginRun(p)
  \/ Reconcile(p)
  \/ Archive(p)

LaunchStep(p) ==
  \/ Popen(p)
  \/ WaitReturns(p)
  \/ DurationExpired(p)
  \/ GraceExpired(p)
  \/ KeyboardInterruptWait(p)
  \/ InterruptedWaitReturns(p)
  \/ KeyboardInterruptGrace(p)

ChildStep(p) ==
  \/ ChildCreatesSession(p)
  \/ ChildCreatesBestCases(p)
  \/ ChildTouchesSession(p)
  \/ ChildExits(p)

\* one sweep driver, from its start to its exit
Init == InitSweep

Next ==
  \/ \E p \in Procs : DriverStep(p) \/ LaunchStep(p) \/ ChildStep(p) \/ OutsiderCreatesDest(p)
  \/ ForeignCreatesSession

Spec == Init /\ [][Next]_vars

\* launch_fuzzer / launch_container called once, by any of the three drivers' modules
InitLaunch ==
  /\ \E d \in Drivers :
       sw = [p \in Procs |->
               IF p = 1
               THEN [Fresh(d, NoInput) EXCEPT !.pc = "popen",
                       !.cmd = build_command(d, [mode |-> "PF_IDF", policy |-> "MOP",
                                                 corpus |-> "RANDOM"], <<>>)]
               ELSE Idle]
  /\ out = [p \in Procs |-> OutInit("absent")]
  /\ envBudget = MaxEvents - 1
  /\ InitSweepCommon

NextLaunch == \E p \in Procs : LaunchStep(p) \/ ChildStep(p)

SpecLaunch == InitLaunch /\ [][NextLaunch]_vars

----------------------------------------------------------------------------
(* C1: shutdown escalates in a fixed order. In launch_fuzzer and launch_container  *)
(* the signals sent to the child are none, or the interrupt, or the interrupt and  *)
(* then the kill: the interrupt is sent when the duration expires with the child   *)
(* still running (or on the user's Ctrl-C during that wait), the kill only when    *)
(* the grace wait that follows the interrupt expires with the child still running; *)
(* a call whose first wait returns because the child exited has sent no signal,    *)
(* and launch_container removes its container only once the child has exited.      *)
C1_EscalationOrder ==
  /\ [](\A p \in Procs :
          /\ sw[p].signals \in {<<>>, <<"SIGINT">>, <<"SIGINT", "SIGKILL">>}
          /\ (sw[p].pc = "after" /\ ~sw[p].timed_out) => sw[p].signals = <<>>
          /\ sw[p].pc = "wait_duration" => sw[p].signals = <<>>
          /\ sw[p].pc = "wait_grace" => sw[p].signals = <<"SIGINT">> /\ sw[p].timed_out
          /\ child[p].removed => child[p].state = "exited")
  /\ [][\A p \in Procs :
          (sw'[p].signals # sw[p].signals /\ sw'[p].signals # <<>>) =>
             /\ child[p].state = "running"
             /\ \/ LastSignal(sw'[p]) = "SIGINT" /\ sw[p].pc = "wait_duration"
                \/ /\ LastSignal(sw'[p]) = "SIGKILL"
                   /\ sw[p].pc = "wait_grace"
                   /\ sw[p].signals = <<"SIGINT">>]_vars

\* the grace period expired on a child that ignored the interrupt, and it was killed
C1_Witness ==
  \E p \in Procs :
    /\ sw[p].pc = "after"
    /\ sw[p].signals = <<"SIGINT", "SIGKILL">>
    /\ sw[p].timed_out
    /\ child[p].state = "exited"

----------------------------------------------------------------------------
(* Two run_config_sweep instances started side by side over one fuzz_sessions/, *)
(* each with its own output directory and one run to do                          *)

ParallelInput ==
  [seedsIsDir |-> TRUE, skip_seed_check |-> FALSE, jarIsFile |-> TRUE,
   scoringFileExists |-> TRUE, modes |-> SomeArg(<<"pf_idf">>),
   mutator_policies |-> SomeArg(<<"mop">>), corpus_policies |-> SomeArg(<<"champion">>),
   runs_per_combo |-> 0, rng_seeds |-> <<>>]

InitParallel ==
  /\ sw = [p \in Procs |-> IF p <= 2 THEN Fresh(SweepDriver, ParallelInput) ELSE Idle]
  /\ out = [p \in Procs |-> OutInit("absent")]
  /\ envBudget = 1
  /\ InitSweepCommon

NextParallel == \E p \in Procs : DriverStep(p) \/ LaunchStep(p) \/ ChildStep(p)

SpecParallel == InitParallel /\ [][NextParallel]_vars

----------------------------------------------------------------------------
(* filter_c2_optimized_seeds: compile each seed with javac, run it with          *)
(* -XX:+TraceC2Optimizations, keep the seeds whose output holds the marker         *)

\* the seeds directory holds at most this many *.java files
MaxSeeds == 3

OPT_MARKER == "OPTS_START"

\* file names, in the order of Python's string comparison
SeedNames == SubSeq(<<"A.java", "B.java", "a.java", "b.java", "c.java">>, 1, MaxSeeds)
NameRank(name) == CHOOSE k \in 1..Len(SeedNames) : SeedNames[k] = name

\* sorted(seed_dir.glob("*.java")): insertion into a sorted list
RECURSIVE Insert(_, _)
Insert(name, sortedSeq) ==
  IF sortedSeq = <<>> THEN <<name>>
  ELSE IF NameRank(name) <= NameRank(Head(sortedSeq)) THEN <<name>> \o sortedSeq
  ELSE <<Head(sortedSeq)>> \o Insert(name, Tail(sortedSeq))

\* a faulty variant: the seeds are taken in the order glob yields them
Unsorted(listing) == listing

RECURSIVE sorted(_)
sorted(listing) ==
  IF listing = <<>> THEN <<>> ELSE Insert(Head(listing), sorted(Tail(listing)))

\* Optional[int]: None is the empty sequence
None == <<>>
Some(v) == <<v>>

\* how a javac or java subprocess ends: it exits with a status, outlives the timeout,
\* or subprocess.run raises (the binary cannot be executed, its output cannot be decoded)
NotRun == [kind |-> "not_run", code |-> 0, marker |-> "nowhere"]
JavacOutcomes ==
  {[kind |-> "exit", code |-> 0, marker |-> "nowhere"],
   [kind |-> "exit", code |-> 1, marker |-> "nowhere"],
   [kind |-> "timeout", code |-> 0, marker |-> "nowhere"],
   [kind |-> "raise", code |-> 0, marker |-> "nowhere"]}
\* marker: the stream of the java process the marker line is in (the exit status
\* of java only shows in the message and in the count of runtime failures)
JavaOutcomes ==
  {[kind |-> k, code |-> 0, marker |-> m] :
      k \in {"exit", "timeout"}, m \in {"nowhere", "stdout", "stderr"}}
  \cup {[kind |-> "raise", code |-> 0, marker |-> "nowhere"]}

\* the lines a process wrote to a stream before it ended
Stream(o, name) == IF o.marker = name THEN <<"warmup", OPT_MARKER>> ELSE <<"warmup">>

\* a faulty variant: a timeout is reported like an exit without a status
run_cmd_no_timeout(o) ==
  [ret |-> IF o.kind = "timeout" THEN None ELSE Some(o.code),
   stdout |-> Stream(o, "stdout"), stderr |-> Stream(o, "stderr"), timeout |-> FALSE]

\* run_cmd(cmd, timeout) for a subprocess that ends as o (o.kind # "raise")
run_cmd(o) ==
  IF o.kind = "timeout"
  THEN [ret |-> None, stdout |-> Stream(o, "stdout"), stderr |-> Stream(o, "stderr"),
        timeout |-> TRUE]
  ELSE [ret |-> Some(o.code), stdout |-> Stream(o, "stdout"),
        stderr |-> Stream(o, "stderr"), timeout |-> FALSE]

\* SeedResult without its message, which only the verbose listing prints
SeedResult(path, compiled, ran, has_opts, exit_code, timed_out) ==
  [path |-> path, compiled |-> compiled, ran |-> ran, has_opts |-> has_opts,
   exit_code |-> exit_code, timed_out |-> timed_out]

NoResult == SeedResult("", FALSE, FALSE, FALSE, None, FALSE)

\* process_seed up to the returns that follow the compilation: the result, or
\* NoResult when the seed is to be run
CompileResult(seed, javac) ==
  LET c == run_cmd(javac)
  IN  IF c.timeout THEN SeedResult(seed, FALSE, FALSE, FALSE, None, TRUE)
      ELSE IF c.ret # Some(0) THEN SeedResult(seed, FALSE, FALSE, FALSE, c.ret, FALSE)
      ELSE NoResult

\* process_seed from the run to its last return
RunResult(seed, java) ==
  LET r == run_cmd(java)
      combined == r.stdout \o <<"\n">> \o r.stderr
      has_opts == \E k \in 1..Len(combined) : combined[k] = OPT_MARKER
  IN  SeedResult(seed, TRUE, ~r.timeout, has_opts, r.ret, r.timeout)

\* a task of the filter: one call of process_seed
NoTask == [st |-> "absent", javac |-> NotRun, java |-> NotRun, res |-> NoResult]

Names == Range(SeedNames)

\* main's locals when it starts, for a command line and a seeds directory
FilterFresh(jobs, outputGiven, seedsIsDir, javaFound, listing, stale) ==
  [pc |-> "main", jobs |-> jobs, outputGiven |-> outputGiven, seedsIsDir |-> seedsIsDir,
   javaFound |-> javaFound,
   listing |-> listing,       \* seed_dir.glob("*.java"), in the directory's order
   seeds |-> <<>>, i |-> 1,
   queue |-> <<>>,            \* the pool's work queue
   task |-> [n \in Names |-> NoTask],
   yielded |-> {},            \* the futures as_completed has yielded
   results |-> <<>>,
   out_file |-> [open |-> FALSE, lines |-> stale],   \* the file --output names
   exc |-> "", cause |-> "",
   summary |-> [printed |-> FALSE, scanned |-> 0, with_opts |-> <<>>],
   started |-> <<>>]          \* history: the seeds in the order process_seed began

JobsArgs == {0, 1, 2}

\* the orders in which glob may yield the files of a directory
Listings ==
  {l \in UNION {[1..n -> Names] : n \in 0..MaxSeeds} :
     \A a, b \in 1..Len(l) : a # b => l[a] # l[b]}

InitFilter ==
  /\ \E jobs \in JobsArgs, outputGiven, seedsIsDir, javaFound \in BOOLEAN, l \in Listings,
        stale \in {<<>>, <<"A.java">>} :
       /\ seedsIsDir \/ l = <<>>
       /\ outputGiven \/ stale = <<>>
       /\ flt = FilterFresh(jobs, outputGiven, seedsIsDir, javaFound, l, stale)
  /\ sw = [p \in Procs |-> Idle]
  /\ child = [p \in Procs |-> NoChild]
  /\ out = [p \in Procs |-> OutInit("absent")]
  /\ rootExists = FALSE /\ root = {} /\ clock = 0 /\ envBudget = 0
  /\ rt = RtIdle /\ jt = JtIdle /\ fl = FlIdle

FRaise(f, e, why) == [f EXCEPT !.pc = "raised", !.exc = e, !.cause = why]

\* main, from parse_args to the opening of the output file
FilterMain ==
  /\ flt.pc = "main"
  /\ LET seeds == sorted(flt.listing)
     IN  flt' = IF ~flt.seedsIsDir THEN FRaise(flt, "SystemExit", "seed_dir")
                ELSE IF seeds = <<>>
                THEN FRaise([flt EXCEPT !.listing = <<>>], "SystemExit", "no_seeds")
                ELSE IF ~flt.javaFound
                THEN FRaise([flt EXCEPT !.listing = <<>>, !.seeds = seeds],
                            "SystemExit", "java")
                ELSE [flt EXCEPT !.listing = <<>>, !.seeds = seeds,
                                 !.task = [n \in Names |->
                                             IF n \in Range(seeds)
                                             THEN [NoTask EXCEPT !.st = "pending"]
                                             ELSE NoTask],
                                 !.out_file = IF flt.outputGiven
                                              THEN [open |-> TRUE, lines |-> <<>>]
                                              ELSE @,
                                 !.pc = IF flt.jobs > 1 THEN "submit" ELSE "loop"]
  /\ UNCHANGED <<sw, child, root, rootExists, clock, out, envBudget, rt, jt, fl>>

\* record_result(res, bucket)
record_result(f, res) ==
  [f EXCEPT !.results = Append(@, res),
            !.out_file.lines = IF f.out_file.open /\ res.has_opts
                               THEN Append(@, res.path) ELSE @]

\* the try block is left: `finally: out_file.close()`
CloseOut(f) == [f EXCEPT !.out_file.open = FALSE]

\* the tasks a javac or java subprocess is running for
Active == {n \in Names : flt.task[n].st \in {"compile", "run"}}

\* process_seed's javac returns, times out or cannot be run
JavacEnds(n) ==
  /\ flt.task[n].st = "compile"
  /\ \E o \in JavacOutcomes :
       flt' = [flt EXCEPT !.task[n].javac = o,
                          !.task[n].st = IF o.kind = "raise" THEN "raised"
                                         ELSE IF CompileResult(n, o) = NoResult THEN "run"
                                         ELSE "finished",
                          !.task[n].res = IF o.kind = "raise" THEN NoResult
                                          ELSE CompileResult(n, o)]
  /\ UNCHANGED <<sw, child, root, rootExists, clock, out, envBudget, rt, jt, fl>>

\* process_seed's java returns, times out or raises
JavaEnds(n) ==
  /\ flt.task[n].st = "run"
  /\ \E o \in JavaOutcomes :
       flt' = [flt EXCEPT !.task[n].java = o,
                          !.task[n].st = IF o.kind = "raise" THEN "raised" ELSE "finished",
                          !.task[n].res = IF o.kind = "raise" THEN NoResult
                                          ELSE RunResult(n, o)]
  /\ UNCHANGED <<sw, child, root, rootExists, clock, out, envBudget, rt, jt, fl>>

\* the summary main prints before it returns 0
Summary(results) ==
  [printed |-> TRUE, scanned |-> Len(results),
   with_opts |-> SelectSeq(results, LAMBDA r : r.has_opts)]

\* `for seed in seeds: res = process_seed(...)`: the call begins
SeqStart ==
  /\ flt.pc = "loop"
  /\ flt.i <= Len(flt.seeds)
  /\ flt' = [flt EXCEPT !.pc = "in_seed", !.task[flt.seeds[flt.i]].st = "compile",
                        !.started = Append(@, flt.seeds[flt.i])]
  /\ UNCHANGED <<sw, child, root, rootExists, clock, out, envBudget, rt, jt, fl>>

\* the call returns and its result is recorded, or it raises and main is left
SeqEnd ==
  /\ flt.pc = "in_seed"
  /\ LET t == flt.task[flt.seeds[flt.i]]
     IN  \/ /\ t.st = "finished"
            /\ flt' = [record_result(flt, t.res) EXCEPT !.pc = "loop", !.i = @ + 1]
         \/ /\ t.st = "raised"
            /\ flt' = FRaise(CloseOut(flt), "Exception", "process_seed")
  /\ UNCHANGED <<sw, child, root, rootExists, clock, out, envBudget, rt, jt, fl>>

\* the loop (or as_completed) is exhausted: close the file, print the summary, return 0
FilterDone ==
  /\ \/ flt.pc = "loop" /\ flt.i > Len(flt.seeds)
     \/ flt.pc = "as_completed" /\ flt.yielded = Range(flt.seeds)
  /\ flt' = [CloseOut(flt) EXCEPT !.pc = "done", !.summary = Summary(flt.results)]
  /\ UNCHANGED <<sw, child, root, rootExists, clock, out, envBudget, rt, jt, fl>>

\* pool.submit(process_seed, seed, ...) for the next seed of the dict comprehension
Submit ==
  /\ flt.pc = "submit"
  /\ flt' = [flt EXCEPT !.queue = Append(@, flt.seeds[flt.i]),
                        !.task[flt.seeds[flt.i]].st = "queued",
                        !.i = @ + 1,
                        !.pc = IF flt.i = Len(flt.seeds) THEN "as_completed" ELSE "submit"]
  /\ UNCHANGED <<sw, child, root, rootExists, clock, out, envBudget, rt, jt, fl>>

\* a faulty variant: the pool starts a thread for every task
WorkerFreeAlways(busy, max_workers) == TRUE

\* ThreadPoolExecutor(max_workers=args.jobs): a task leaves the queue when one of
\* the max_workers threads is not running a task
WorkerFree(busy, max_workers) == busy < max_workers

\* a worker thread takes the oldest queued task and calls process_seed
WorkerStart ==
  /\ flt.pc \in {"submit", "as_completed", "shutdown"}
  /\ flt.queue # <<>>
  /\ WorkerFree(Cardinality(Active), flt.jobs)
  /\ flt' = [flt EXCEPT !.queue = Tail(@), !.task[Head(flt.queue)].st = "compile",
                        !.started = Append(@, Head(flt.queue))]
  /\ UNCHANGED <<sw, child, root, rootExists, clock, out, envBudget, rt, jt, fl>>

\* `for fut in as_completed(futures): record_result(fut.result(), results)`: a
\* future that is done is yielded; fut.result() raises what process_seed raised
Yield ==
  /\ flt.pc = "as_completed"
  /\ \E n \in Range(flt.seeds) \ flt.yielded :
       \/ /\ flt.task[n].st = "finished"
          /\ flt' = [record_result(flt, flt.task[n].res) EXCEPT !.yielded = @ \cup {n}]
       \/ /\ flt.task[n].st = "raised"
          /\ flt' = [flt EXCEPT !.pc = "shutdown", !.yielded = @ \cup {n}]
  /\ UNCHANGED <<sw, child, root, rootExists, clock, out, envBudget, rt, jt, fl>>

\* the exception leaves the `with` block: the pool's shutdown waits for every task,
\* then the file is closed and main is left
Shutdown ==
  /\ flt.pc = "shutdown"
  /\ \A n \in Range(flt.seeds) : flt.task[n].st \in {"finished", "raised"}
  /\ flt' = FRaise(CloseOut(flt), "Exception", "process_seed")
  /\ UNCHANGED <<sw, child, root, rootExists, clock, out, envBudget, rt, jt, fl>>

NextFilter ==
  \/ FilterMain
  \/ SeqStart
  \/ SeqEnd
  \/ FilterDone
  \/ Submit
  \/ WorkerStart
  \/ Yield
  \/ Shutdown
  \/ \E n \in Names : JavacEnds(n) \/ JavaEnds(n)

SpecFilter == InitFilter /\ [][NextFilter]_vars

----------------------------------------------------------------------------
(* filter_runtime_compiler_seeds: compile every .java file below runtime/ and   *)
(* compiler/ on its own and copy the ones that compile into the output directory *)

\* the two directories hold at most this many .java files together
MaxSources == 3

\* the paths a source may have, as Path.parts below the tests root
SourcePaths ==
  {<<"runtime", "a", "T.java">>, <<"runtime", "b", "U.java">>,
   <<"compiler", "a", "T.java">>, <<"compiler", "b", "T.java">>,
   <<"compiler", "b", "U.java">>}

BaseNames == {"T.java", "U.java"}

\* src.name
BaseName(path) == path[Len(path)]

\* the order of Python's str on the parts that occur
PartRank(part) ==
  CASE part = "T.java" -> 1 [] part = "U.java" -> 2 [] part = "a" -> 3
    [] part = "b" -> 4 [] part = "compiler" -> 5 [] part = "runtime" -> 6

\* Path.__lt__: the parts are compared in turn
RECURSIVE PathLess(_, _)
PathLess(a, b) ==
  IF a = <<>> THEN b # <<>>
  ELSE IF b = <<>> THEN FALSE
  ELSE IF Head(a) = Head(b) THEN PathLess(Tail(a), Tail(b))
  ELSE PartRank(Head(a)) < PartRank(Head(b))

RECURSIVE InsertPath(_, _)
InsertPath(path, sortedSeq) ==
  IF sortedSeq = <<>> THEN <<path>>
  ELSE IF ~PathLess(Head(sortedSeq), path) THEN <<path>> \o sortedSeq
  ELSE <<Head(sortedSeq)>> \o InsertPath(path, Tail(sortedSeq))

\* sorted(sources)
RECURSIVE SortedPaths(_)
SortedPaths(listing) ==
  IF listing = <<>> THEN <<>> ELSE InsertPath(Head(listing), SortedPaths(Tail(listing)))

\* list(runtime_dir.rglob("*.java")) + list(compiler_dir.rglob("*.java")): the files
\* of runtime/ in any order, then those of compiler/ in any order
SourceListings ==
  {l \in UNION {[1..n -> SourcePaths] : n \in 0..MaxSources} :
     /\ \A i, j \in 1..Len(l) : i # j => l[i] # l[j]
     /\ \A i, j \in 1..Len(l) : (l[i][1] = "runtime" /\ l[j][1] = "compiler") => i < j}

\* what the compile server does with a request: the connection fails or times out,
\* or it answers {"success": true} or {"success": false}
ServerOutcomes == {"unreachable", "success", "failure"}

\* try_compile_server(server, source, class_output)
try_compile_server(outcome) == outcome = "success"

\* what the local javac does: exit status 0, another status, or it cannot be run
JavacRtOutcomes == {"ok", "fail", "raise"}

\* try_compile_javac(javac_bin, source)
try_compile_javac(outcome) == outcome = "ok"

\* `if not ok and javac_bin`
FallsBackToJavac(ok, javac_bin) == ~ok /\ javac_bin

\* a faulty variant: no basename counts as seen
InSeenNever(name, seen_names) == FALSE

\* `if target_name in seen_names`
InSeen(name, seen_names) == name \in seen_names

\* a file of the output directory: the source it was copied from ("old": it was
\* there before the run; <<>>: there is no such file)
NoFile == <<>>
OldFile == <<"old">>

\* what the run did with one source
Attempt(src, server, javac, ok) == [src |-> src, server |-> server, javac |-> javac, ok |-> ok]

RtFresh(use_server, javac_bin, listing, old) ==
  [pc |-> "main", use_server |-> use_server, javac_bin |-> javac_bin,
   listing |-> listing, sources |-> <<>>, idx |-> 1,
   total |-> 0, kept |-> 0, seen_names |-> {},
   ok |-> FALSE,
   output |-> [b \in BaseNames |-> IF b \in old THEN OldFile ELSE NoFile],
   exc |-> "",
   attempts |-> <<>>,                          \* history: one entry per compiled source
   received |-> [b \in BaseNames |-> <<>>]]    \* history: the copies into the output

InitRuntime ==
  /\ \E use_server, javac_bin \in BOOLEAN, l \in SourceListings, old \in {{}, {"T.java"}} :
       rt = RtFresh(use_server, javac_bin, l, old)
  /\ sw = [p \in Procs |-> Idle]
  /\ child = [p \in Procs |-> NoChild]
  /\ out = [p \in Procs |-> OutInit("absent")]
  /\ rootExists = FALSE /\ root = {} /\ clock = 0 /\ envBudget = 0
  /\ flt = FilterIdle /\ jt = JtIdle /\ fl = FlIdle

\* main, up to the loop
RtMain ==
  /\ rt.pc = "main"
  /\ rt' = [rt EXCEPT !.pc = "loop", !.sources = SortedPaths(rt.listing), !.listing = <<>>]
  /\ UNCHANGED <<sw, child, root, rootExists, clock, out, envBudget, flt, jt, fl>>

\* one iteration up to `if not ok: continue`: the copy into the temporary directory
\* (an exception skips the source), strip_package, the server and javac
RtCompile ==
  /\ rt.pc = "loop"
  /\ rt.idx <= Len(rt.sources)
  /\ LET src == rt.sources[rt.idx]
     IN  \/ rt' = [rt EXCEPT !.total = @ + 1, !.idx = @ + 1]
         \/ \E sv \in ServerOutcomes, jc \in JavacRtOutcomes :
              LET served == IF rt.use_server THEN try_compile_server(sv) ELSE FALSE
                  falls == FallsBackToJavac(served, rt.javac_bin)
                  ok == IF falls THEN try_compile_javac(jc) ELSE served
              IN  /\ rt.use_server \/ sv = "unreachable"
                  /\ falls \/ jc = "ok"
                  /\ rt' = [rt EXCEPT !.total = @ + 1, !.ok = ok,
                                      !.pc = IF ok THEN "keep" ELSE "loop",
                                      !.idx = IF ok THEN @ ELSE @ + 1,
                                      !.attempts = Append(@,
                                         Attempt(src,
                                                 IF rt.use_server THEN sv ELSE "not_asked",
                                                 IF falls THEN jc ELSE "not_run", ok))]
  /\ UNCHANGED <<sw, child, root, rootExists, clock, out, envBudget, flt, jt, fl>>

\* the rest of the iteration: the duplicate check and the copy into the output
\* directory, which may raise
RtKeep ==
  /\ rt.pc = "keep"
  /\ LET src == rt.sources[rt.idx]
         target_name == BaseName(src)
     IN  IF InSeen(target_name, rt.seen_names)
         THEN rt' = [rt EXCEPT !.pc = "loop", !.idx = @ + 1]
         ELSE \/ rt' = [rt EXCEPT !.pc = "loop", !.idx = @ + 1,
                                  !.seen_names = @ \cup {target_name},
                                  !.output[target_name] = src,
                                  !.received[target_name] = Append(@, src),
                                  !.kept = @ + 1]
              \/ rt' = [rt EXCEPT !.pc = "raised", !.exc = "OSError",
                                  !.seen_names = @ \cup {target_name}]
  /\ UNCHANGED <<sw, child, root, rootExists, clock, out, envBudget, flt, jt, fl>>

\* "Checked ... sources, kept ..." and return 0
RtDone ==
  /\ rt.pc = "loop"
  /\ rt.idx > Len(rt.sources)
  /\ rt' = [rt EXCEPT !.pc = "done"]
  /\ UNCHANGED <<sw, child, root, rootExists, clock, out, envBudget, flt, jt, fl>>

NextRuntime == RtMain \/ RtCompile \/ RtKeep \/ RtDone

SpecRuntime == InitRuntime /\ [][NextRuntime]_vars

----------------------------------------------------------------------------
(* scripts/filter_jtreg.py: copy every jtreg source with a main to OUT_ROOT,     *)
(* compile it with its siblings, run the emitted classes, keep or delete the copy *)

\* .java files with the text 'static void main(' under SRC_ROOT, at most MaxTree
MaxTree == 2
\* the files SRC_ROOT may hold, in the order a directory walk meets them
JavaTreeOrder ==
  << <<"test", "A.java">>, <<"test", "sub", "A.java">>, <<"test", "sub", "B.java">> >>
JavaTree == Range(JavaTreeOrder)
\* the directories of SRC_ROOT, in the order glob yields them
DirOrder == << <<"test">>, <<"test", "sub">> >>
SrcRootDir == <<>>
\* --include: default (test/**), one directory, a pattern that matches nothing
IncludeArgs == {"", "test/sub", "lib"}
\* --exclude: none, or a file name
ExcludeArgs == {"", "B.java"}
MaxFilesArgs == {0, 1}
\* the numbers of top-level classes a compilation may emit
EmittedClasses == {0, 1, 2}

IsUnder(path, d) == Len(d) < Len(path) /\ SubSeq(path, 1, Len(d)) = d

\* the directories under SRC_ROOT that match the include globs; SRC_ROOT if none
IncludedDirs(include, tree) ==
  LET matched == SelectSeq(DirOrder, LAMBDA d :
                   /\ \E q \in tree : IsUnder(q, d)
                   /\ CASE include = "" -> d[1] = "test"
                        [] include = "test/sub" -> d = <<"test", "sub">>
                        [] OTHER -> FALSE)
  IN  IF matched = <<>> THEN <<SrcRootDir>> ELSE matched

\* java.match(ex) for a file-name pattern
Excluded(path, exclude) == exclude # "" /\ path[Len(path)] = exclude

\* d.rglob("*.java") for the directories from index k on, filtered
RECURSIVE iter_from(_, _, _, _, _)
iter_from(dirs, k, tree, mains, exclude) ==
  IF k > Len(dirs) THEN <<>>
  ELSE SelectSeq(JavaTreeOrder, LAMBDA q :
         /\ q \in tree /\ IsUnder(q, dirs[k])
         /\ ~Excluded(q, exclude)
         /\ q \in mains)
       \o iter_from(dirs, k + 1, tree, mains, exclude)

iter_java_with_main_text(tree, mains, include, exclude) ==
  iter_from(IncludedDirs(include, tree), 1, tree, mains, exclude)

\* a path under OUT_ROOT: directory, file name, and the suffix _i of --flatten
Dest(dir, name, i) == [dir |-> dir, name |-> name, i |-> i]
NoDest == Dest(<<>>, "", 0)
ParentDir(path) == SubSeq(path, 1, Len(path) - 1)
FileAt(dest, content) == [dest |-> dest, content |-> content]
Exists(files, dest) == \E f \in files : f.dest = dest
Unlink(files, dest) == {f \in files : f.dest # dest}

\* a directory of classes: whether it exists, and its top-level classes
DirState(exists, n) == [exists |-> exists, n |-> n]
AbsentDir == DirState(FALSE, 0)

ensure_clean_dir(d, dry_run) == IF dry_run THEN d ELSE DirState(TRUE, 0)
rmtree_if_exists(d, dry_run) == IF d.exists /\ ~dry_run THEN AbsentDir ELSE d

\* copy_preserving: the destination, and the files of OUT_ROOT after the copy
copy_preserving(src, files, flatten, dry_run) ==
  LET name == src[Len(src)]
  IN  IF flatten
      THEN IF dry_run
           THEN [dest |-> Dest(<<>>, name, 0), files |-> files]
           ELSE LET i == CHOOSE n \in 0..Cardinality(files) :
                           /\ ~Exists(files, Dest(<<>>, name, n))
                           /\ \A m \in 0..(n - 1) : Exists(files, Dest(<<>>, name, m))
                    dest == Dest(<<>>, name, i)
                IN  [dest |-> dest, files |-> files \cup {FileAt(dest, src)}]
      ELSE LET dest == Dest(ParentDir(src), name, 0)
           IN  [dest |-> dest,
                files |-> IF dry_run THEN files
                          ELSE Unlink(files, dest) \cup {FileAt(dest, src)}]

\* list_top_level_fqcns: the classes found in the classes directory
list_top_level_fqcns(classes) == IF classes.exists THEN classes.n ELSE 0

\* write_manifest of filter_jtreg: nothing for no rows, else the file is written
jt_write_manifest(fs, which, rows) ==
  IF rows = <<>> THEN fs
  ELSE [fs EXCEPT !.out_root = TRUE, ![which] = Some(rows)]

\* main 270-275: remove the testlib classes, write the two manifests
jt_finish(fs, kept, dropped, dry_run) ==
  jt_write_manifest(jt_write_manifest(
    [fs EXCEPT !.testlib = rmtree_if_exists(@, dry_run)],
    "kept_manifest", kept), "dropped_manifest", dropped)

\* OUT_ROOT before the run: missing, empty, or left over from an earlier run
OutRoots ==
  { [out_root |-> FALSE, files |-> {}, classes |-> AbsentDir, testlib |-> AbsentDir,
     kept_manifest |-> None, dropped_manifest |-> None],
    [out_root |-> TRUE, files |-> {}, classes |-> AbsentDir, testlib |-> AbsentDir,
     kept_manifest |-> None, dropped_manifest |-> None],
    [out_root |-> TRUE,
     files |-> {FileAt(Dest(<<>>, "A.java", 0), <<"old">>),
                FileAt(Dest(<<"test">>, "A.java", 0), <<"old">>)},
     classes |-> DirState(TRUE, 1), testlib |-> DirState(TRUE, 0),
     kept_manifest |-> None, dropped_manifest |-> None] }

\* SRC_ROOT/test/lib: missing, without sources, with sources
TestlibDirs == {"absent", "empty", "sources"}
JtJavacOutcomes == {"ok", "fail", "raise"}
JtJavaOutcomes == {"exit0", "nonzero", "timeout", "exception"}

Processed(src, dest, compiled, passed, verdict, reason) ==
  [src |-> src, dest |-> dest, compiled |-> compiled, passed |-> passed,
   verdict |-> verdict, reason |-> reason]

JtFresh(dry_run, flatten, max_files, include, exclude, tree, mains, testlib, fs) ==
  [pc |-> "main", dry_run |-> dry_run, flatten |-> flatten, max_files |-> max_files,
   include |-> include, exclude |-> exclude, tree |-> tree, mains |-> mains,
   testlib |-> testlib, compiled_testlib_cp |-> FALSE,
   todo |-> <<>>, src |-> <<>>, dest |-> NoDest,
   candidates |-> 0, success |-> FALSE, last_reason |-> "",
   kept |-> <<>>, dropped |-> <<>>, processed |-> 0,
   fs |-> fs, fs0 |-> fs, src0 |-> tree, hist |-> <<>>]

InitJtreg ==
  /\ \E dry_run, flatten \in BOOLEAN, max_files \in MaxFilesArgs,
        include \in IncludeArgs, exclude \in ExcludeArgs,
        tree \in SUBSET JavaTree, testlib \in TestlibDirs, fs \in OutRoots :
       /\ Cardinality(tree) <= MaxTree
       /\ \E mains \in SUBSET tree :
            /\ Cardinality(tree \ mains) <= 1
            /\ jt = JtFresh(dry_run, flatten, max_files, include, exclude,
                            tree, mains, testlib, fs)
  /\ sw = [p \in Procs |-> Idle]
  /\ child = [p \in Procs |-> NoChild]
  /\ out = [p \in Procs |-> OutInit("absent")]
  /\ rootExists = FALSE /\ root = {} /\ clock = 0 /\ envBudget = 0
  /\ flt = FilterIdle /\ rt = RtIdle /\ fl = FlIdle

\* main up to the loop: compile_testlib, and the candidates of the scan
JtMain ==
  /\ jt.pc = "main"
  /\ LET todo == iter_java_with_main_text(jt.tree, jt.mains, jt.include, jt.exclude)
         cleaned == [jt.fs EXCEPT !.testlib = ensure_clean_dir(@, jt.dry_run),
                                  !.out_root = @ \/ ~jt.dry_run]
     IN  CASE jt.testlib = "absent" ->
                jt' = [jt EXCEPT !.pc = "loop", !.todo = todo]
           [] jt.testlib = "empty" ->
                jt' = [jt EXCEPT !.pc = "loop", !.todo = todo, !.fs = cleaned]
           [] OTHER ->
                \E o \in JtJavacOutcomes :
                  /\ jt.dry_run => o = "ok"
                  /\ jt' = IF o = "raise"
                           THEN [jt EXCEPT !.pc = "raised", !.fs = cleaned]
                           ELSE [jt EXCEPT !.pc = "loop", !.todo = todo, !.fs = cleaned,
                                           !.compiled_testlib_cp = (o = "ok")]
  /\ UNCHANGED <<sw, child, root, rootExists, clock, out, envBudget, flt, rt, fl>>

LimitReached == jt.max_files > 0 /\ jt.processed >= jt.max_files

\* the head of an iteration: copy_preserving and ensure_clean_dir(classes_dir)
JtBegin ==
  /\ jt.pc = "loop"
  /\ jt.todo # <<>>
  /\ ~LimitReached
  /\ LET src == Head(jt.todo)
         cp == copy_preserving(src, jt.fs.files, jt.flatten, jt.dry_run)
     IN  jt' = [jt EXCEPT !.pc = "compile", !.todo = Tail(@), !.src = src,
                          !.dest = cp.dest, !.success = FALSE, !.candidates = 0,
                          !.fs = [@ EXCEPT !.files = cp.files,
                                           !.out_root = @ \/ ~jt.dry_run,
                                           !.classes = ensure_clean_dir(@, jt.dry_run)]]
  /\ UNCHANGED <<sw, child, root, rootExists, clock, out, envBudget, flt, rt, fl>>

\* compile_sources for the candidate and its siblings; on failure the copy is
\* dropped, else the emitted classes are listed
JtCompile ==
  /\ jt.pc = "compile"
  /\ \E o \in JtJavacOutcomes, n \in EmittedClasses :
       /\ jt.dry_run => (o = "ok" /\ n = 0)
       /\ o # "ok" => n = 0
       /\ LET classes == IF jt.dry_run THEN jt.fs.classes ELSE DirState(TRUE, n)
              found == list_top_level_fqcns(classes)
          IN  jt' =
                CASE o = "raise" -> [jt EXCEPT !.pc = "raised"]
                  [] o = "fail" ->
                       [jt EXCEPT !.pc = "loop",
                                  !.fs.files = Unlink(@, jt.dest),
                                  !.dropped = Append(@, <<jt.dest, "compile_failed">>),
                                  !.processed = @ + 1,
                                  !.hist = Append(@, Processed(jt.src, jt.dest, FALSE, FALSE,
                                                               "dropped", "compile_failed"))]
                  [] OTHER ->
                       [jt EXCEPT !.pc = "run", !.fs.classes = classes,
                                  !.candidates = found,
                                  !.last_reason = IF found = 0 THEN "no_classes_emitted"
                                                  ELSE "nonzero_exit_or_timeout"]
  /\ UNCHANGED <<sw, child, root, rootExists, clock, out, envBudget, flt, rt, fl>>

\* run_main for the next emitted class
JtRun ==
  /\ jt.pc = "run"
  /\ jt.candidates > 0
  /\ ~jt.success
  /\ \E o \in JtJavaOutcomes :
       /\ jt.dry_run => o = "exit0"
       /\ jt' = [jt EXCEPT !.candidates = @ - 1,
                           !.success = (o = "exit0"),
                           !.last_reason = CASE o = "timeout" -> "timeout"
                                             [] o = "exception" -> "run_exception"
                                             [] OTHER -> @]
  /\ UNCHANGED <<sw, child, root, rootExists, clock, out, envBudget, flt, rt, fl>>

\* after the runs: remove the classes, keep or drop the copy, count it
JtVerdict ==
  /\ jt.pc = "run"
  /\ jt.success \/ jt.candidates = 0
  /\ LET classes == rmtree_if_exists(jt.fs.classes, jt.dry_run)
     IN  jt' = IF jt.success
               THEN [jt EXCEPT !.pc = "loop", !.fs.classes = classes,
                               !.kept = Append(@, <<jt.dest, "ok">>),
                               !.processed = @ + 1,
                               !.hist = Append(@, Processed(jt.src, jt.dest, TRUE, TRUE,
                                                            "kept", "ok"))]
               ELSE [jt EXCEPT !.pc = "loop", !.fs.classes = classes,
                               !.fs.files = IF jt.dry_run THEN @ ELSE Unlink(@, jt.dest),
                               !.dropped = Append(@, <<jt.dest, jt.last_reason>>),
                               !.processed = @ + 1,
                               !.hist = Append(@, Processed(jt.src, jt.dest, TRUE, FALSE,
                                                            "dropped", jt.last_reason))]
  /\ UNCHANGED <<sw, child, root, rootExists, clock, out, envBudget, flt, rt, fl>>

\* after the loop: the testlib classes are removed and the manifests written
JtFinish ==
  /\ jt.pc = "loop"
  /\ jt.todo = <<>> \/ LimitReached
  /\ jt' = [jt EXCEPT !.pc = "done",
                      !.fs = jt_finish(@, jt.kept, jt.dropped, jt.dry_run)]
  /\ UNCHANGED <<sw, child, root, rootExists, clock, out, envBudget, flt, rt, fl>>

NextJtreg == JtMain \/ JtBegin \/ JtCompile \/ JtRun \/ JtVerdict \/ JtFinish

SpecJtreg == InitJtreg /\ [][NextJtreg]_vars

----------------------------------------------------------------------------
(* scripts/flatten_jtreg.py: copy every .java file under the source into one     *)
(* flat directory, skipping a name the destination already holds                 *)

\* entries that source.rglob("*.java") yields, at most MaxFlat
MaxFlat == 3
FlatNames == {"A.java", "B.java"}
PartialFile == <<"partial">>

\* the orders in which the walk may yield entries of the source
RglobListings ==
  {l \in UNION {[1..n -> JavaTree] : n \in 0..MaxFlat} :
     \A a, b \in 1..Len(l) : a # b => l[a] # l[b]}

\* a faulty variant: the destination is never seen to hold the name
TargetExistsNever(dest, name) == FALSE

\* target.exists()
TargetExists(dest, name) == dest[name] # NoFile

FlEvent(src, held, what) == [src |-> src, held |-> held, what |-> what]

FlFresh(source_is_dir, listing, dirs, old) ==
  [pc |-> "main", source_is_dir |-> source_is_dir, listing |-> listing, dirs |-> dirs,
   idx |-> 1, copied |-> 0, skipped |-> 0,
   dest_exists |-> old # {},
   dest |-> [n \in FlatNames |-> IF n \in old THEN OldFile ELSE NoFile],
   dest0 |-> [n \in FlatNames |-> IF n \in old THEN OldFile ELSE NoFile],
   events |-> <<>>]

InitFlatten ==
  /\ \E source_is_dir \in BOOLEAN, l \in RglobListings, old \in SUBSET FlatNames,
        dirs \in {{}, {<<"test", "sub", "B.java">>}} :
       /\ source_is_dir \/ (l = <<>> /\ dirs = {})
       /\ dirs \subseteq Range(l)
       /\ fl = FlFresh(source_is_dir, l, dirs, old)
  /\ sw = [p \in Procs |-> Idle]
  /\ child = [p \in Procs |-> NoChild]
  /\ out = [p \in Procs |-> OutInit("absent")]
  /\ rootExists = FALSE /\ root = {} /\ clock = 0 /\ envBudget = 0
  /\ flt = FilterIdle /\ rt = RtIdle /\ jt = JtIdle

\* flatten_java_no_rename up to the loop; main exits with 1 on the exception
FlMain ==
  /\ fl.pc = "main"
  /\ fl' = IF ~fl.source_is_dir
           THEN [fl EXCEPT !.pc = "exit1"]
           ELSE [fl EXCEPT !.pc = "loop", !.dest_exists = TRUE]
  /\ UNCHANGED <<sw, child, root, rootExists, clock, out, envBudget, flt, rt, jt>>

\* one iteration: skip what is no file, skip an existing name, else copy2, which
\* may fail and leave nothing or a part of the file
FlStep ==
  /\ fl.pc = "loop"
  /\ fl.idx <= Len(fl.listing)
  /\ LET java_file == fl.listing[fl.idx]
         name == BaseName(java_file)
         held == fl.dest[name]
     IN  IF java_file \in fl.dirs
         THEN fl' = [fl EXCEPT !.idx = @ + 1,
                               !.events = Append(@, FlEvent(java_file, held, "no_file"))]
         ELSE IF TargetExists(fl.dest, name)
         THEN fl' = [fl EXCEPT !.idx = @ + 1, !.skipped = @ + 1,
                               !.events = Append(@, FlEvent(java_file, held, "skipped"))]
         ELSE \/ fl' = [fl EXCEPT !.idx = @ + 1, !.copied = @ + 1,
                                  !.dest[name] = java_file,
                                  !.events = Append(@, FlEvent(java_file, held, "copied"))]
              \/ \E left \in {NoFile, PartialFile} :
                   fl' = [fl EXCEPT !.idx = @ + 1,
                                    !.dest[name] = left,
                                    !.events = Append(@, FlEvent(java_file, held, "failed"))]
  /\ UNCHANGED <<sw, child, root, rootExists, clock, out, envBudget, flt, rt, jt>>

\* return copied, skipped; main prints the counts
FlDone ==
  /\ fl.pc = "loop"
  /\ fl.idx > Len(fl.listing)
  /\ fl' = [fl EXCEPT !.pc = "done"]
  /\ UNCHANGED <<sw, child, root, rootExists, clock, out, envBudget, flt, rt, jt>>

NextFlatten == FlMain \/ FlStep \/ FlDone

SpecFlatten == InitFlatten /\ [][NextFlatten]_vars

----------------------------------------------------------------------------
(* Vocabulary of the claims about the sweep drivers *)

\* the exceptions that end a sweep inside a run, after its fuzzer was launched
RunAbortCauses == {"no_new_session", "dest_exists", "session_gone", "user"}

RunAborted(p) == sw[p].pc = "raised" /\ sw[p].cause \in RunAbortCauses

\* the driver has started its fuzzer for the run under way and not yet recorded it
RunUnderWay(p) ==
  \/ sw[p].pc \in {"wait_duration", "wait_grace", "wait_interrupted", "after", "archive"}
  \/ RunAborted(p)

\* the driver was given inputs its validation accepts and an output directory it can use
InputsAccepted(p) == Validate(sw[p].driver, sw[p].inp).exc = "" /\ ~out[p].junk

\* the k-th launch of a sweep over modes x policies x corpora with rpc repetitions:
\* the mode changes slowest, the repetition fastest
ExpectedLaunch(modes, policies, corpora, rpc, k) ==
  LET c == (k - 1) \div rpc
      P == Len(policies)
      C == Len(corpora)
  IN  [scoring |-> modes[(c \div (P * C)) + 1],
       mutator_policy |-> Lower(policies[((c \div C) % P) + 1]),
       corpus_policy |-> Lower(corpora[(c % C) + 1]),
       run |-> ((k - 1) % rpc) + 1]

\* the lists and the repetitions the driver's arguments ask for
Requested(p) ==
  LET v == Validate(sw[p].driver, sw[p].inp)
      early == sw[p].pc \in {"import", "main"} \/ (sw[p].pc = "raised" /\ sw[p].cause = "import")
  IN  [modes |-> IF early THEN v.scoring_modes ELSE sw[p].scoring_modes,
       policies |-> IF early THEN v.mutator_policies ELSE sw[p].mutator_policies,
       corpora |-> IF early THEN v.corpus_policies ELSE sw[p].corpus_policies,
       rpc |-> RunsPerCombo(sw[p].driver, sw[p].inp)]

LaunchedAsRequested(p) ==
  LET r == Requested(p)
      n == Len(r.modes) * Len(r.policies) * Len(r.corpora) * r.rpc
      m == out[p].manifest
  IN  /\ Len(sw[p].launches) = n
      /\ m.written
      /\ Len(m.runs) = n
      /\ \A k \in 1..n :
           LET e == ExpectedLaunch(r.modes, r.policies, r.corpora, r.rpc, k)
           IN  /\ k <= Len(sw[p].launches) =>
                    /\ sw[p].launches[k].scoring = e.scoring
                    /\ sw[p].launches[k].mutator_policy = e.mutator_policy
                    /\ sw[p].launches[k].corpus_policy = e.corpus_policy
               /\ k <= Len(m.runs) =>
                    /\ m.runs[k].command = sw[p].launches[k]
                    /\ m.runs[k].label.run = e.run

----------------------------------------------------------------------------
(* C3: a sweep that is given acceptable inputs and in which no run aborts has, when *)
(* it ends, launched the fuzzer exactly runs_per_combo times for every (mode,       *)
(* policy, corpus) triple, modes outermost and repetitions innermost, and its       *)
(* manifest holds one entry per launch; for run_config_sweep and for                *)
(* run_config_sweep_docker.                                                         *)
C3_CrossProductLaunched ==
  \A p \in Procs :
    (/\ sw[p].driver \in {SweepDriver, DockerDriver}
     /\ sw[p].pc \in {"done", "raised"}
     /\ InputsAccepted(p)
     /\ ~RunAborted(p)) => LaunchedAsRequested(p)

\* the same for run_config_sweep alone
C3_SweepCrossProductLaunched ==
  \A p \in Procs :
    (/\ sw[p].driver = SweepDriver
     /\ sw[p].pc \in {"done", "raised"}
     /\ InputsAccepted(p)
     /\ ~RunAborted(p)) => LaunchedAsRequested(p)

\* run_config_sweep has ended a sweep of four runs
C3_SweepWitness ==
  \E p \in Procs :
    sw[p].driver = SweepDriver /\ sw[p].pc = "done" /\ Len(sw[p].launches) = 4

----------------------------------------------------------------------------
(* C4: in run_config_sweep, every run the manifest lists has its session directory *)
(* gone from fuzz_sessions/ and its dest_dir below the output directory.           *)
C4_SessionRelocated ==
  \A p \in Procs :
    sw[p].driver = SweepDriver =>
      \A k \in 1..Len(out[p].manifest.runs) :
        LET r == out[p].manifest.runs[k]
        IN  /\ r.dest_dir.parent = "output"
            /\ SessionName(r.session_timestamp) \notin {e.name : e \in root}

----------------------------------------------------------------------------
(* C5: manifest.json follows the sweep's progress. It is on disk, with an empty *)
(* runs list, before the first launch; whenever it is on disk it lists exactly  *)
(* the runs completed so far, in the order they were launched; a run that is    *)
(* under way or has aborted is not in it, and the runs before it still are.     *)
C5_ManifestConsistent ==
  \A p \in Procs :
    LET s == sw[p]
        m == out[p].manifest
        completedRuns == Len(s.launches) - (IF RunUnderWay(p) THEN 1 ELSE 0)
    IN  /\ (s.pc = "popen" \/ s.launches # <<>>) => m.written
        /\ (s.pc = "popen" /\ s.launches = <<>>) => m.runs = <<>>
        /\ m.written =>
             /\ Len(m.runs) = completedRuns
             /\ \A k \in 1..Len(m.runs) : m.runs[k].command = s.launches[k]
        /\ ~m.written => m.runs = <<>>

\* a run aborted after an earlier run had been recorded
C5_Witness ==
  \E p \in Procs :
    /\ RunAborted(p)
    /\ sw[p].cause = "dest_exists"
    /\ Len(sw[p].launches) = 2
    /\ Len(out[p].manifest.runs) = 1

----------------------------------------------------------------------------
(* C6: the session directory a driver attributes to a run is a directory named  *)
(* session_*, absent from the listing taken before the launch and present in    *)
(* the listing taken after the child exited; when the two listings show no new  *)
(* directory the driver raises RuntimeError and the run is not recorded.        *)
C6_AttributedSessionIsNew ==
  \A p \in Procs :
    \A k \in 1..Len(sw[p].hist) :
      LET h == sw[p].hist[k]
      IN  /\ h.after = {e.name : e \in {x \in h.entries : x.isDir /\ x.name.kind = "session_"}}
          /\ h.chosen # NoName =>
               /\ h.chosen.parent = "fuzz_sessions" /\ h.chosen.kind = "session_"
               /\ h.chosen \notin h.before
               /\ h.chosen \in h.after
               /\ \E e \in h.entries : e.name = h.chosen /\ e.isDir
          /\ h.after \ h.before = {} => h.chosen = NoName
          /\ h.chosen = NoName =>
               /\ k = Len(sw[p].hist)
               /\ sw[p].pc = "raised" /\ sw[p].exc = "RuntimeError"
               /\ Len(sw[p].runs) = k - 1
               /\ Len(out[p].manifest.runs) = k - 1
          /\ k <= Len(sw[p].runs) =>
               sw[p].runs[k].session_timestamp = derive_timestamp(h.chosen)

\* a run recorded although fuzz_sessions/ held an older session directory, a plain
\* file named session_* and a best_cases_* directory, and then a run whose child
\* left no session directory
C6_Witness ==
  \E p \in Procs :
    /\ Len(sw[p].hist) = 2
    /\ sw[p].hist[1].chosen # NoName
    /\ sw[p].hist[1].before # {}
    /\ \E e \in sw[p].hist[1].entries : e.name.kind = "best_cases_"
    /\ sw[p].hist[2].chosen = NoName
    /\ sw[p].exc = "RuntimeError"

----------------------------------------------------------------------------
(* C8: a driver given a missing seeds directory (with the seed check on), a     *)
(* missing fuzzer jar, or an unknown scoring mode, mutator policy or corpus     *)
(* policy never gets past its validation: it launches nothing, creates no       *)
(* output directory and writes no manifest, and the exception that ends it for  *)
(* one of these reasons is SystemExit.                                          *)
Unknown(values, allowed) ==
  values.given /\ \E i \in 1..Len(values.vals) : StripUpper(values.vals[i]) \notin Range(allowed)

BadInput(driver, inp) ==
  \/ ~inp.seedsIsDir /\ (driver = ScoringDriver \/ ~inp.skip_seed_check)
  \/ driver # DockerDriver /\ ~inp.jarIsFile
  \/ Unknown(inp.modes, IF driver = DockerDriver THEN default_scoring_modes
                        ELSE parse_scoring_modes)
  \/ Unknown(inp.mutator_policies, IF driver = ScoringDriver THEN SCORING_DEFAULT_POLICIES
                                   ELSE DEFAULT_POLICIES)
  \/ driver # ScoringDriver /\ Unknown(inp.corpus_policies, DEFAULT_CORPORA)

\* the driver was started with such an input, or works with a list that holds a
\* value outside the allowed ones
InvalidRequest(p) ==
  LET d == sw[p].driver
  IN  \/ BadInput(d, sw[p].inp)
      \/ \E i \in 1..Len(sw[p].scoring_modes) :
            sw[p].scoring_modes[i] \notin
              Range(IF d = DockerDriver THEN default_scoring_modes ELSE parse_scoring_modes)
      \/ \E i \in 1..Len(sw[p].mutator_policies) :
            sw[p].mutator_policies[i] \notin
              Range(IF d = ScoringDriver THEN SCORING_DEFAULT_POLICIES ELSE DEFAULT_POLICIES)
      \/ /\ d # ScoringDriver
         /\ \E i \in 1..Len(sw[p].corpus_policies) :
              sw[p].corpus_policies[i] \notin Range(DEFAULT_CORPORA)

InputCauses == {"seeds", "jar", "modes", "mutator_policy", "corpus_policy"}

----------------------------------------------------------------------------
(* C7: when sweeps run side by side over one fuzz_sessions/, every manifest     *)
(* entry records the session directory that run's own fuzzer created, and no    *)
(* session directory is recorded by two runs.                                   *)
C7_OwnSessionRecorded ==
  \A p \in Procs :
    \A k \in 1..Len(out[p].manifest.runs) :
      /\ sw[p].hist[k].by = <<p, k>>
      /\ \A q \in Procs :
           \A j \in 1..Len(out[q].manifest.runs) :
             <<q, j>> # <<p, k>> =>
               out[q].manifest.runs[j].dest_dir # out[p].manifest.runs[k].dest_dir

----------------------------------------------------------------------------
(* Vocabulary of the claims about the seed filter *)

\* the seed compiled within the compile timeout and the output captured from its
\* run holds the marker
Optimized(n) ==
  /\ flt.task[n].javac.kind = "exit" /\ flt.task[n].javac.code = 0
  /\ flt.task[n].java.kind \in {"exit", "timeout"}
  /\ flt.task[n].java.marker \in {"stdout", "stderr"}

Listed(n) == \E k \in 1..Len(flt.out_file.lines) : flt.out_file.lines[k] = n

Counted(n) ==
  /\ flt.summary.printed
  /\ \E k \in 1..Len(flt.summary.with_opts) : flt.summary.with_opts[k].path = n

FilterRuns == flt.pc \notin {"idle", "main"} /\ ~(flt.pc = "raised" /\ flt.exc = "SystemExit")

FilterEnded == flt.pc = "done" \/ (flt.pc = "raised" /\ flt.exc # "SystemExit")

----------------------------------------------------------------------------
(* C2: a seed is in the --output list, and among the seeds the summary counts as *)
(* having C2 optimizations, exactly when it compiled within the compile timeout  *)
(* and the output captured from its run holds OPTS_START: no other seed is ever  *)
(* listed, and when the filter has ended every such seed is.                     *)
C2_ListedIffOptimized ==
  FilterRuns =>
    \A n \in Names :
      /\ (Listed(n) \/ Counted(n)) => Optimized(n)
      /\ (FilterEnded /\ Optimized(n)) =>
           /\ flt.outputGiven => Listed(n)
           /\ flt.pc = "done" => Counted(n)

\* the same for the filter run with --jobs <= 1
C2_SequentialListedIffOptimized ==
  (FilterRuns /\ flt.jobs <= 1) =>
    \A n \in Names :
      /\ (Listed(n) \/ Counted(n)) => Optimized(n)
      /\ (FilterEnded /\ Optimized(n)) =>
           /\ flt.outputGiven => Listed(n)
           /\ flt.pc = "done" => Counted(n)

----------------------------------------------------------------------------
(* C9: with --jobs N > 1 at most N seeds are being compiled or run at any        *)
(* moment; with --jobs <= 1 the seeds are processed one at a time in sorted      *)
(* file-name order, each one finished and recorded before the next is started.   *)
C9_BoundedWorkers ==
  FilterRuns =>
    /\ flt.jobs > 1 => Cardinality(Active) <= flt.jobs
    /\ flt.jobs <= 1 =>
         /\ Cardinality(Active) <= 1
         /\ \A k \in 1..Len(flt.started) :
              /\ flt.started[k] = flt.seeds[k]
              /\ k < Len(flt.started) =>
                   /\ NameRank(flt.started[k]) < NameRank(flt.started[k + 1])
                   /\ flt.task[flt.started[k]].st = "finished"
                   /\ Len(flt.results) >= k /\ flt.results[k].path = flt.started[k]
         /\ \A n \in Range(flt.seeds) \ Range(flt.started) :
              \A k \in 1..Len(flt.started) : NameRank(flt.started[k]) < NameRank(n)

\* two seeds are in flight under --jobs 2 while a third waits in the queue
C9_Witness ==
  /\ flt.pc = "as_completed"
  /\ flt.jobs = 2
  /\ Cardinality(Active) = 2
  /\ flt.queue # <<>>

\* under --jobs 1 three seeds that glob yielded out of order have been processed
C9_SequentialWitness ==
  /\ flt.pc = "done"
  /\ flt.jobs = 1
  /\ Len(flt.started) = 3

----------------------------------------------------------------------------
(* C10: a timeout yields a result. A seed whose compilation timed out has the    *)
(* result compiled=False, ran=False, has_opts=False, timed_out=True and is never *)
(* run; a seed whose run timed out has compiled=True, ran=False, timed_out=True, *)
(* exit_code=None; what is recorded is that result, and a timeout does not end   *)
(* the filter: it ends early only when process_seed raised, and when it ends     *)
(* normally every seed has its result recorded.                                  *)
C10_TimeoutYieldsResult ==
  FilterRuns =>
    /\ \A n \in Names :
         LET t == flt.task[n]
         IN  /\ t.javac.kind = "timeout" =>
                  /\ t.st = "finished"
                  /\ t.java = NotRun
                  /\ t.res = SeedResult(n, FALSE, FALSE, FALSE, None, TRUE)
             /\ t.java.kind = "timeout" =>
                  /\ t.st = "finished"
                  /\ t.res.path = n
                  /\ t.res.compiled /\ ~t.res.ran /\ t.res.timed_out
                  /\ t.res.exit_code = None
    /\ \A k \in 1..Len(flt.results) :
         flt.results[k] = flt.task[flt.results[k].path].res
    /\ flt.pc = "raised" => \E n \in Names : flt.task[n].st = "raised"
    /\ flt.pc = "done" =>
         \A n \in Range(flt.seeds) :
           \E k \in 1..Len(flt.results) : flt.results[k].path = n

\* the first seed's compilation and the second seed's run timed out, and the third
\* seed was processed after them
C10_Witness ==
  /\ flt.pc = "done"
  /\ Len(flt.results) = 3
  /\ flt.task[flt.started[1]].javac.kind = "timeout"
  /\ flt.task[flt.started[2]].java.kind = "timeout"
  /\ flt.task[flt.started[3]].java.kind = "exit"

----------------------------------------------------------------------------
(* C11: an exception of process_seed for one seed is skipped over. When the      *)
(* filter has ended, the summary has been printed, every seed for which          *)
(* process_seed did not raise has its result recorded, and those among them      *)
(* whose output holds the marker are in the --output list.                       *)
C11_SkipAndContinue ==
  (FilterRuns /\ FilterEnded) =>
    /\ flt.summary.printed
    /\ \A n \in Range(flt.seeds) :
         flt.task[n].st # "raised" =>
           /\ \E k \in 1..Len(flt.results) : flt.results[k].path = n
           /\ (flt.outputGiven /\ flt.task[n].res.has_opts) => Listed(n)

----------------------------------------------------------------------------
(* C12: on a collision of basenames the later file is skipped. During a run the  *)
(* output directory receives at most one file per basename; the file it receives *)
(* comes from the first source, in sorted path order, that has the basename and  *)
(* compiled; it stays in place while later sources with the basename compile;    *)
(* and when the run ends normally every basename with a compiled source has its  *)
(* file.                                                                         *)
C12_FirstCompiledKept ==
  rt.pc # "idle" =>
    /\ \A i, j \in 1..Len(rt.attempts) :
         i < j => PathLess(rt.attempts[i].src, rt.attempts[j].src)
    /\ \A b \in BaseNames :
         LET got == rt.received[b]
             compiled == {k \in 1..Len(rt.attempts) :
                            rt.attempts[k].ok /\ BaseName(rt.attempts[k].src) = b}
         IN  /\ Len(got) <= 1
             /\ Len(got) = 0 => rt.output[b] \in {NoFile, OldFile}
             /\ Len(got) = 1 =>
                  /\ rt.output[b] = got[1]
                  /\ BaseName(got[1]) = b
                  /\ \E k \in compiled : rt.attempts[k].src = got[1]
                  /\ \A k \in compiled :
                       rt.attempts[k].src # got[1] => PathLess(got[1], rt.attempts[k].src)
             /\ (rt.pc = "done" /\ compiled # {}) => Len(got) = 1

\* two sources named T.java compiled, and the run ended with the first one's copy
C12_Witness ==
  /\ rt.pc = "done"
  /\ Len(rt.received["T.java"]) = 1
  /\ \E k \in 1..Len(rt.attempts) :
       /\ rt.attempts[k].ok
       /\ BaseName(rt.attempts[k].src) = "T.java"
       /\ rt.attempts[k].src # rt.received["T.java"][1]

----------------------------------------------------------------------------
(* C13: the local javac is a fallback for an unreachable server. javac is run    *)
(* for a source only when the compile server could not be reached for it (or no  *)
(* server is configured), never when the server answered that the compilation    *)
(* failed.                                                                       *)
C13_JavacOnlyWhenUnreachable ==
  rt.pc # "idle" =>
    \A k \in 1..Len(rt.attempts) :
      rt.attempts[k].javac # "not_run" =>
        rt.attempts[k].server \in {"unreachable", "not_asked"}

----------------------------------------------------------------------------
(* C14: without --dry-run, between two candidates and at the end of the run,     *)
(* every processed candidate is in exactly one of the kept and dropped lists;    *)
(* a copy of it remains under OUT_ROOT iff it was kept; and it was kept iff it   *)
(* compiled with its siblings and an emitted top-level class exited with 0 in    *)
(* time (on a compile failure, a timeout, a non-zero exit or no class the copy   *)
(* is deleted).                                                                  *)
JtKept(src) ==
  \E k \in 1..Len(jt.hist) :
    jt.hist[k].src = src /\ <<jt.hist[k].dest, "ok">> \in Range(jt.kept)
JtDropped(src) ==
  \E k \in 1..Len(jt.hist) :
    jt.hist[k].src = src /\ \E d \in Range(jt.dropped) : d[1] = jt.hist[k].dest
JtCopyRemains(src) ==
  \E k \in 1..Len(jt.hist) :
    jt.hist[k].src = src /\ FileAt(jt.hist[k].dest, src) \in jt.fs.files

C14_KeptIffRuns ==
  (jt.pc \in {"loop", "done"} /\ ~jt.dry_run) =>
    \A k \in 1..Len(jt.hist) :
      LET src == jt.hist[k].src
      IN  /\ JtKept(src) # JtDropped(src)
          /\ JtCopyRemains(src) <=> JtKept(src)
          /\ JtKept(src) <=> (jt.hist[k].compiled /\ jt.hist[k].passed)

----------------------------------------------------------------------------
(* C15: with --dry-run nothing under OUT_ROOT or SRC_ROOT is created, copied,    *)
(* modified or deleted: at every point of the run both trees are as they were    *)
(* when it started.                                                              *)
C15_DryRunTouchesNothing ==
  (jt.pc # "idle" /\ jt.dry_run) => (jt.fs = jt.fs0 /\ jt.tree = jt.src0)

----------------------------------------------------------------------------
(* C16: flatten_jtreg never overwrites or renames. A .java file whose name the   *)
(* destination already holds, from before the run or from an earlier copy of the *)
(* run, is skipped and counted as skipped; every file the destination held       *)
(* before the run is unchanged; a file the run added carries the name of its     *)
(* source; and copied + skipped never exceeds the number of .java entries found. *)
FlCount(what) == Cardinality({k \in 1..Len(fl.events) : fl.events[k].what = what})

C16_NoOverwriteNoRename ==
  fl.pc # "idle" =>
    /\ \A k \in 1..Len(fl.events) :
         (fl.events[k].held # NoFile /\ fl.events[k].src \notin fl.dirs)
            => fl.events[k].what = "skipped"
    /\ fl.skipped = FlCount("skipped")
    /\ fl.copied = FlCount("copied")
    /\ \A n \in FlatNames :
         /\ fl.dest0[n] # NoFile => fl.dest[n] = fl.dest0[n]
         /\ (fl.dest0[n] = NoFile /\ fl.dest[n] \notin {NoFile, PartialFile})
              => BaseName(fl.dest[n]) = n
    /\ fl.copied + fl.skipped <= Len(fl.listing)

\* a name copied earlier in the run was met again and skipped, next to a file
\* that was in the destination before the run
C16_Witness ==
  /\ fl.pc = "done"
  /\ fl.dest0["B.java"] = OldFile
  /\ \E k \in 1..Len(fl.events) :
       /\ fl.events[k].what = "skipped"
       /\ fl.events[k].held \in JavaTree
       /\ fl.events[k].held # fl.events[k].src
       /\ fl.dest["A.java"] = fl.events[k].held

----------------------------------------------------------------------------
(* C17: run_config_sweep applies the seeds of --rng-seeds per repetition and     *)
(* cycles them: the launch of repetition r (counted from 0) of every combination *)
(* carries --rng rng_seeds[r mod len(rng_seeds)], launches of the same           *)
(* repetition carry the same seed in every combination, and without seeds no     *)
(* launch carries --rng.                                                         *)
C17_RngPerRepetition ==
  \A p \in Procs :
    sw[p].driver = SweepDriver =>
      LET seeds == sw[p].inp.rng_seeds
          rpc == RunsPerCombo(sw[p].driver, sw[p].inp)
          launched == sw[p].launches
      IN  \A k \in 1..Len(launched) :
            LET r == (k - 1) % rpc
            IN  /\ seeds = <<>> => launched[k].rng = <<>>
                /\ seeds # <<>> => launched[k].rng = <<seeds[(r % Len(seeds)) + 1]>>
                /\ \A j \in 1..Len(launched) :
                     (j - 1) % rpc = r => launched[j].rng = launched[k].rng

\* one seed for two repetitions of two combinations: the second repetition of
\* the second combination was launched with the seed again
C17_Witness ==
  \E p \in Procs :
    /\ sw[p].driver = SweepDriver /\ sw[p].pc = "done"
    /\ sw[p].inp.rng_seeds = <<7>>
    /\ RunsPerCombo(sw[p].driver, sw[p].inp) = 2
    /\ Len(sw[p].launches) = 4
    /\ sw[p].launches[4].rng = <<7>>

====
